---------------------------- MODULE Spec2Model ----------------------------
(***************************************************************************)
(* Verification model of the xodr-editor sources:                          *)
(*   src/xodr/spline.js    Poly3 / CubicSpline, lane-run builder           *)
(*   src/xodr/geometry.js  curve sampler                                   *)
(*   src/xodr/opendrive.js laneWidthAt                                     *)
(*   src/editor.js         axis editor, rounding, intersections            *)
(*                                                                         *)
(* Numbers.  The sources compute in IEEE doubles; the model computes in    *)
(* integers.  Spline knots and coefficients are integers.  Arc lengths of  *)
(* the sampler are in hundredths of a metre.  Lane widths and lateral      *)
(* offsets are in millimetres.  Pixel coordinates of the editor are in     *)
(* tenths of a pixel.  Every formula keeps the shape it has in the source; *)
(* a division is an integer division.                                      *)
(***************************************************************************)
EXTENDS Integers, Sequences, FiniteSets, TLC

VARIABLES
    \* ---- CubicSpline (spline.js) ----
    splA,        \* operand "this"  : sequence of segments [s0, a, b, c, d]
    splB,        \* operand "other"
    splSum,      \* result of this.add(other)
    splPc,       \* "idle" | "init" | "added"
    \* ---- curve sampler (geometry.js) ----
    samGeoms,    \* road.planView : sequence of primitives
    samOpts,     \* opts of sampleGeometrySequence : [step, maxAngle]
    samIdx,      \* number of primitives the for-loop has consumed
    samPts,      \* pts of the last sampleSegmentAdaptive call (local s)
    samOut,      \* out : absolute s of the samples collected so far
    \* ---- lane-run builder (spline.js buildLaneRunsTrack) ----
    lanRoad,     \* road : [laneSections, laneOffsets]
    lanTrack,    \* track : [side, nodes]
    lanSamples,  \* sIndex : arc length of the centreline samples
    lanI,        \* number of samples the loop has consumed
    lanSt,       \* runOuter, runInner, active, prevWidth, runType, features
    lanPc,       \* "idle" | "loop" | "done"
    \* ---- axis rounding (editor.js smoothAxisCoords) ----
    smCoords,    \* feat.geometry.coordinates of one axis
    smRound,     \* roundingByAxis.get(feat.id) : vertex position -> k
    smOut,       \* result of smoothAxisCoords(feat)
    smT,         \* the tangent length t the loop used at each vertex
    smPc,        \* "idle" | "edit" | "smoothed"
    \* ---- intersections (editor.js recomputeIntersectionsAll) ----
    ixAxes,      \* Array.from(roadsById.values()) : sequence of [id, coords]
    ixSnapVertexPx,  \* snapVertexPx
    ixIntersections,  \* intersections, as setIntersections stored them
    ixPc,        \* "idle" | "edit" | "done"
    \* ---- axis editor (src/editor.js) ----
    ed,          \* the module-level variables of editor.js
    edBtn,       \* the mouse button
    edAt,        \* where the button went down
    edLast,      \* what the last event did
    \* ---- export and re-ingest (src/editor.js) ----
    rtEd,        \* the module-level variables of editor.js
    rtXml,       \* the exported document
    rtBefore,    \* the editor at the export
    rtPc,        \* edit, exported, ingested
    \* ---- document loading (src/xodr/opendrive.js, src/xodr/spline.js) ----
    currentModel,  \* the model of the document loaded last, Null before
    currentGeo,  \* the features built from it, Null before
    ldText,      \* the text handed to loadXodr last
    ldPrev,      \* currentModel and currentGeo as they were when loadXodr was called
    ldAlert,     \* the message of the alert that the call raised, empty for none
    \* ---- sampling of one line (src/xodr/geometry.js sampleSegment) ----
    lnGeom,      \* geom : the line primitive, [x, y, hdg, length]
    lnStep,      \* the target chord length handed to the sampler
    lnPts,       \* pts : the samples [x, y, th, s] returned
    lnPc,        \* "idle" | "input" | "sampleSegment" | "sampleSegmentAdaptive"
    \* ---- lanes of a road (src/xodr/opendrive.js readLanes, laneWidthAt; src/xodr/spline.js sectionAt) ----
    plXml,       \* the laneSection elements of the road, in document order
    plSections,  \* road.laneSections as parseOpenDrive returned them
    plS,         \* the arc length s of the sample looked up last
    plSec,       \* sectionAt(s), as an index into road.laneSections
    plW,         \* laneWidthAt of the first left lane of that section at s
    plPc,        \* "idle" | "xml" | "parsed" | "sampled"
    \* ---- splitting the axes at the intersections (src/editor.js rebuildAndRenderEditorRoads, splitAxisByIntersections) ----
    spAxes,      \* roadsById
    spRounding,  \* roundingByAxis
    spIntersections,  \* the intersections as recomputeIntersectionsAll stored them
    spSmooth,    \* smoothAxisCoords of every axis, the polyline that was split
    spParts,     \* the value of splitAxisByIntersections for every axis
    spPc,        \* "idle" | "edit" | "built"
    \* ---- a session of drawing, selecting and editing with loads in between (src/editor.js 1076-1175, 1251-1323) ----
    se,          \* the module-level variables of editor.js
    seBtn,       \* the button of the pointer: "up", "down" (pressed, not moved since) or "moved"
    seAt,        \* where the button went down
    seMark,      \* history variable: the axes before the last edit, or as the last load left them
    \* ---- lane tracks (spline.js buildTracks) ----
    btRoad,      \* road : [laneSections]
    btSide,      \* side : "left" | "right"
    btTracks,    \* tracks returned by buildTracks(side)
    btPc         \* "idle" | "init" | "built"

splVars == <<splA, splB, splSum, splPc>>
samVars == <<samGeoms, samOpts, samIdx, samPts, samOut>>
lanVars == <<lanRoad, lanTrack, lanSamples, lanI, lanSt, lanPc>>
smVars == <<smCoords, smRound, smOut, smT, smPc>>
ixVars == <<ixAxes, ixSnapVertexPx, ixIntersections, ixPc>>
edVars == <<ed, edBtn, edAt, edLast>>
rtVars == <<rtEd, rtXml, rtBefore, rtPc>>
ldVars == <<currentModel, currentGeo, ldText, ldPrev, ldAlert>>
lnVars == <<lnGeom, lnStep, lnPts, lnPc>>
plVars == <<plXml, plSections, plS, plSec, plW, plPc>>
spVars == <<spAxes, spRounding, spIntersections, spSmooth, spParts, spPc>>
seVars == <<se, seBtn, seAt, seMark>>
btVars == <<btRoad, btSide, btTracks, btPc>>

vars == <<splVars, samVars, lanVars, smVars, ixVars, edVars, rtVars, ldVars, lnVars, plVars, spVars, seVars, btVars>>

\* the state of the other parts, untouched by the operations of one part
notSpl == <<samVars, lanVars, smVars, ixVars, edVars, rtVars, ldVars, lnVars, plVars, spVars, seVars, btVars>>
notSam == <<splVars, lanVars, smVars, ixVars, edVars, rtVars, ldVars, lnVars, plVars, spVars, seVars, btVars>>
notLan == <<splVars, samVars, smVars, ixVars, edVars, rtVars, ldVars, lnVars, plVars, spVars, seVars, btVars>>
notSm == <<splVars, samVars, lanVars, ixVars, edVars, rtVars, ldVars, lnVars, plVars, spVars, seVars, btVars>>
notIx == <<splVars, samVars, lanVars, smVars, edVars, rtVars, ldVars, lnVars, plVars, spVars, seVars, btVars>>
notEd == <<splVars, samVars, lanVars, smVars, ixVars, rtVars, ldVars, lnVars, plVars, spVars, seVars, btVars>>
notRt == <<splVars, samVars, lanVars, smVars, ixVars, edVars, ldVars, lnVars, plVars, spVars, seVars, btVars>>
notLd == <<splVars, samVars, lanVars, smVars, ixVars, edVars, rtVars, lnVars, plVars, spVars, seVars, btVars>>
notLn == <<splVars, samVars, lanVars, smVars, ixVars, edVars, rtVars, ldVars, plVars, spVars, seVars, btVars>>
notPl == <<splVars, samVars, lanVars, smVars, ixVars, edVars, rtVars, ldVars, lnVars, spVars, seVars, btVars>>
notSp == <<splVars, samVars, lanVars, smVars, ixVars, edVars, rtVars, ldVars, lnVars, plVars, seVars, btVars>>
notSe == <<splVars, samVars, lanVars, smVars, ixVars, edVars, rtVars, ldVars, lnVars, plVars, spVars, btVars>>
notBt == <<splVars, samVars, lanVars, smVars, ixVars, edVars, rtVars, ldVars, lnVars, plVars, spVars, seVars>>

-----------------------------------------------------------------------------
(* Generic helpers *)

Min(a, b) == IF a <= b THEN a ELSE b
Max(a, b) == IF a >= b THEN a ELSE b
Abs(a) == IF a < 0 THEN -a ELSE a

\* Division rounding toward zero, as a double division followed by truncation
\* of the part below the model's resolution.
Div(a, b) == IF (a >= 0) = (b > 0) THEN Abs(a) \div Abs(b) ELSE -(Abs(a) \div Abs(b))

RECURSIVE SeqSum(_)
SeqSum(s) == IF s = <<>> THEN 0 ELSE Head(s) + SeqSum(Tail(s))

Last(s) == s[Len(s)]

\* Stable ascending sort of a sequence of pairs <<key, value>> by key:
\* Array.prototype.sort with the comparator (a,b) => key(a) - key(b).
RECURSIVE InsertSorted(_, _)
InsertSorted(s, x) ==
    IF s = <<>> THEN <<x>>
    ELSE IF Head(s)[1] <= x[1] THEN <<Head(s)>> \o InsertSorted(Tail(s), x)
    ELSE <<x>> \o s

RECURSIVE SortPairs(_)
SortPairs(s) ==
    IF s = <<>> THEN <<>>
    ELSE InsertSorted(SortPairs(SubSeq(s, 1, Len(s) - 1)), Last(s))

Values(s) == [i \in 1..Len(s) |-> s[i][2]]

-----------------------------------------------------------------------------
(* Poly3 and CubicSpline                         src/xodr/spline.js 3-75   *)

Poly3(a, b, c, d) == [a |-> a, b |-> b, c |-> c, d |-> d]

Poly3_value(p, ds) == p.a + p.b * ds + p.c * ds * ds + p.d * ds * ds * ds
Poly3_deriv(p, ds) == p.b + 2 * p.c * ds + 3 * p.d * ds * ds
Poly3_deriv2(p, ds) == 2 * p.c + 6 * p.d * ds
Poly3_deriv3(p) == 6 * p.d

\* Mutation: "rebase" that forgets to shift (naive pointwise addition).
Poly3_rebase_noshift(p, delta) == p

Poly3_rebase(p, delta) ==
    LET f0 == Poly3_value(p, delta)
        f1 == Poly3_deriv(p, delta)
        f2 == Poly3_deriv2(p, delta)
        f3 == Poly3_deriv3(p)
    IN  Poly3(f0, f1, f2 \div 2, f3 \div 6)

Poly3_add(p, q) == Poly3(p.a + q.a, p.b + q.b, p.c + q.c, p.d + q.d)

\* this.seg.push({s0, poly}); this.seg.sort((a,b)=>a.s0-b.s0)
CubicSpline_addSegment(seg, s0, p) ==
    LET pushed == Append(seg, [s0 |-> s0, poly |-> p])
    IN  Values(SortPairs([i \in 1..Len(pushed) |-> <<pushed[i].s0, pushed[i]>>]))

RECURSIVE GetPolyScan(_, _, _)
\* for (const sg of this.seg) { if (s + 1e-12 >= sg.s0) candidate = sg; else break; }
GetPolyScan(seg, s, candidate) ==
    IF seg = <<>> THEN candidate
    ELSE IF s >= Head(seg).s0 THEN GetPolyScan(Tail(seg), s, Head(seg))
    ELSE candidate

CubicSpline_get_poly(seg, s, extendStart) ==
    IF Len(seg) = 0 THEN [s0 |-> s, poly |-> Poly3(0, 0, 0, 0)]
    ELSE LET candidate == GetPolyScan(seg, s, seg[1])
         IN  IF s >= candidate.s0 THEN candidate
             ELSE IF extendStart THEN seg[1] ELSE candidate

CubicSpline_get(seg, s, def) ==
    IF Len(seg) = 0 THEN def
    ELSE LET g == CubicSpline_get_poly(seg, s, TRUE)
         IN  Poly3_value(g.poly, s - g.s0)

\* Array.from(ticksSet).sort((a,b)=>a-b)
RECURSIVE SetToSortedSeq(_)
SetToSortedSeq(S) ==
    IF S = {} THEN <<>>
    ELSE LET m == CHOOSE x \in S : \A y \in S : x <= y
         IN  <<m>> \o SetToSortedSeq(S \ {m})

RECURSIVE AddTicks(_, _, _, _)
AddTicks(ticks, segA, segB, out) ==
    IF ticks = <<>> THEN out
    ELSE LET s0 == Head(ticks)
             aP == CubicSpline_get_poly(segA, s0, TRUE)
             bP == CubicSpline_get_poly(segB, s0, TRUE)
             deltaA == s0 - aP.s0
             deltaB == s0 - bP.s0
             pA == Poly3_rebase(aP.poly, deltaA)
             pB == Poly3_rebase(bP.poly, deltaB)
             p == Poly3_add(pA, pB)
         IN  AddTicks(Tail(ticks), segA, segB, CubicSpline_addSegment(out, s0, p))

CubicSpline_add(segA, segB) ==
    LET ticksSet == {segA[i].s0 : i \in 1..Len(segA)} \cup {segB[i].s0 : i \in 1..Len(segB)}
        ticks == SetToSortedSeq(ticksSet)
    IN  IF Len(ticks) = 0 THEN <<>> ELSE AddTicks(ticks, segA, segB, <<>>)

\* ---- bounded inputs of the spline model ----
MaxSeg == 2          \* segments per operand
MaxKnot == 2         \* knots are drawn from 0..MaxKnot
SplPolys == { Poly3(1, 0, 0, 0), Poly3(0, 1, 0, 0), Poly3(2, -1, 1, 0), Poly3(0, 0, -1, 1) }
SplKnots == 0..MaxKnot
SplTs == (-2)..(MaxKnot + 2)

\* all splines with at most MaxSeg segments on strictly increasing knots
SplSegs(n) ==
    { sq \in [1..n -> [s0 : SplKnots, poly : SplPolys]] :
        \A i \in 1..(n - 1) : sq[i].s0 < sq[i + 1].s0 }
SplInputs == UNION { SplSegs(n) : n \in 0..MaxSeg }

SplIdle == splA = <<>> /\ splB = <<>> /\ splSum = <<>> /\ splPc = "idle"

SplStart ==
    /\ splA \in SplInputs
    /\ splB \in SplInputs
    /\ splSum = <<>>
    /\ splPc = "init"

\* out = this.add(other)
SplAdd ==
    /\ splPc = "init"
    /\ splSum' = CubicSpline_add(splA, splB)
    /\ splPc' = "added"
    /\ UNCHANGED <<splA, splB, notSpl>>

\* this.addSegment(s0, a, b, c, d) on an operand before the sum is taken
SplAddSegment ==
    /\ splPc = "init"
    /\ Len(splA) < MaxSeg
    /\ \E s0 \in SplKnots, p \in SplPolys :
          /\ \A i \in 1..Len(splA) : splA[i].s0 /= s0
          /\ splA' = CubicSpline_addSegment(splA, s0, p)
    /\ UNCHANGED <<splB, splSum, splPc, notSpl>>

-----------------------------------------------------------------------------
(* Curve sampler                                 src/xodr/geometry.js 4-221 *)
(*                                                                         *)
(* Units: arc length in centimetres, curvature in 1/1000 per metre, angles *)
(* in milliradians, the derivatives of a ParamPoly3 in 1/100.  A sample    *)
(* [x, y, theta, s] is modelled by its component s: x, y and theta never   *)
(* enter the choice of a step, the number of samples or a value of s.      *)

\* Math.ceil(a / b) for a >= 0, b > 0
CeilDiv(a, b) == (a + b - 1) \div b

\* Math.sqrt, truncated
IsqrtMid(lo, hi) == (lo + hi + 1) \div 2
RECURSIVE IsqrtScan(_, _, _)
IsqrtScan(n, lo, hi) ==
    IF lo >= hi THEN lo
    ELSE IF IsqrtMid(lo, hi) * IsqrtMid(lo, hi) <= n
         THEN IsqrtScan(n, IsqrtMid(lo, hi), hi)
         ELSE IsqrtScan(n, lo, IsqrtMid(lo, hi) - 1)
Isqrt(n) == IF n <= 0 THEN 0 ELSE IsqrtScan(n, 0, Min(n, 46340))

DefaultStep == 70        \* opts.step || 0.7
DefaultMaxAngle == 30    \* opts.maxAngle || 0.03
MinBaseStep == 20        \* Math.max(0.2, ...)
MinMaxAngle == 5         \* Math.max(0.005, ...)
MinSpiralStep == 5       \* Math.max(0.05, ...)

\* a sampler that rounds the number of chords down
sampleSegment_floor(length, step) ==
    IF length <= 0 THEN <<>>
    ELSE [i \in 1..(Max(1, length \div step) + 1) |-> Div((i - 1) * length, Max(1, length \div step))]

\* sampleSegment: n = max(1, ceil(length/step)); ds = length/n; s = i*ds, i = 0..n
sampleSegment(length, step) ==
    IF length <= 0 THEN <<>>
    ELSE LET n == Max(1, CeilDiv(length, step))
         IN  [i \in 1..(n + 1) |-> Div((i - 1) * length, n)]

\* the while loop of the spiral branch
RECURSIVE SpiralLoop(_, _, _, _, _, _, _)
SpiralLoop(L, k0, dk, baseStep, maxAngle, s, pts) ==
    IF ~(s < L) THEN pts
    ELSE LET a == Div(Abs(dk), 2)                       \* 1e-6 / m^2
             b == Abs(k0 + Div(dk * s, 100000))         \* 1e-3 / m
             disc == Max(0, 100 * b * b + Div(4 * a * maxAngle, 10))
             h0 == baseStep
             h1 == IF a > 0
                   THEN Min(h0, Div((Isqrt(disc) - 10 * b) * 10000, 2 * a))
                   ELSE IF b > 0 THEN Min(h0, Div(100 * maxAngle, b))
                   ELSE h0
             h == Max(MinSpiralStep, Min(h1, L - s))
         IN  SpiralLoop(L, k0, dk, baseStep, maxAngle, s + h, Append(pts, s + h))

\* curvature = denom > 1e-9 ? |tx*ay - ty*ax| / (tx^2 + ty^2)^1.5 : 0
Poly3Curvature(tx, ty, ax, ay) ==
    LET sp2 == tx * tx + ty * ty
        denom == sp2 * Isqrt(sp2)
    IN  IF denom > 0 THEN Abs(Div(100000 * (tx * ay - ty * ax), denom)) ELSE 0

\* the step h of the poly3 branch at s; cosH, sinH are those of hdg
Poly3StepH(g, L, baseStep, maxAngle, s) ==
    LET du == g.bU + Div(2 * g.cU * s, 100) + Div(3 * g.dU * s * s, 10000)
        dv == g.bV + Div(2 * g.cV * s, 100) + Div(3 * g.dV * s * s, 10000)
        d2u == 2 * g.cU + Div(6 * g.dU * s, 100)
        d2v == 2 * g.cV + Div(6 * g.dV * s, 100)
        curvature == Poly3Curvature(du * g.cosH - dv * g.sinH, du * g.sinH + dv * g.cosH,
                                    d2u * g.cosH - d2v * g.sinH, d2u * g.sinH + d2v * g.cosH)
        dsAngle == IF curvature > 0 THEN Div(100 * maxAngle, curvature) ELSE L
    IN  Min(Min(Max(MinBaseStep, baseStep), dsAngle), L - s)

\* the while loop of the poly3 branch
RECURSIVE Poly3Loop(_, _, _, _, _, _)
Poly3Loop(g, L, baseStep, maxAngle, s, pts) ==
    IF ~(s <= L) THEN pts
    ELSE LET h == Poly3StepH(g, L, baseStep, maxAngle, s)
             pushed == Append(pts, s)
         IN  IF s >= L THEN pushed
             ELSE Poly3Loop(g, L, baseStep, maxAngle, IF s + h > L THEN L ELSE s + h, pushed)

\* if (pts.length === 0 || pts[pts.length-1][3] < L) pts.push([..., L])
Poly3End(pts, L) == IF Len(pts) = 0 \/ Last(pts) < L THEN Append(pts, L) ELSE pts

sampleSegmentAdaptive(g, opts) ==
    LET L == g.length
        baseStep == Max(MinBaseStep, IF opts.baseStep = 0 THEN DefaultStep ELSE opts.baseStep)
        maxAngle == Max(MinMaxAngle, IF opts.maxAngle = 0 THEN DefaultMaxAngle ELSE opts.maxAngle)
    IN  IF ~(L > 0) THEN <<>>
        ELSE IF g.type = "line" THEN sampleSegment(L, baseStep)
        ELSE IF g.type = "arc" THEN
            LET k == g.curvature
                dsAngle == IF Abs(k) > 0 THEN Div(100 * maxAngle, Abs(k)) ELSE L
                ds == Min(baseStep, dsAngle)
            IN  sampleSegment(L, ds)
        ELSE IF g.type = "spiral" THEN
            LET k0 == g.curvStart
                k1 == g.curvEnd
                dk == Div((k1 - k0) * 100000, L)
            IN  SpiralLoop(L, k0, dk, baseStep, maxAngle, 0, <<0>>)
        ELSE IF g.type = "poly3" THEN
            Poly3End(Poly3Loop(g, L, baseStep, maxAngle, 0, <<>>), L)
        ELSE sampleSegment(L, baseStep)

\* options handed to sampleSegmentAdaptive by sampleGeometrySequence
sampleGeometrySequence_opts(opts) ==
    [baseStep |-> IF opts.step = 0 THEN DefaultStep ELSE opts.step,
     maxAngle |-> IF opts.maxAngle = 0 THEN DefaultMaxAngle ELSE opts.maxAngle]

\* for (const p of pts) p[3] = baseS + (p[3] || 0)
ToAbsolute(baseS, pts) == [i \in 1..Len(pts) |-> baseS + pts[i]]

\* if (out.length && pts.length) pts.shift();  out.push(...pts)
sampleGeometrySequence_push(out, pts) ==
    out \o (IF Len(out) > 0 /\ Len(pts) > 0 THEN Tail(pts) ELSE pts)

\* ---- bounded inputs of the sampler model ----
MaxPrims == 2            \* primitives per planView
SamMaxLen == 100         \* longest primitive, cm

Geom(type, length, k0, k1, cV, dV) ==
    [type |-> type, s |-> 0, length |-> length,
     curvature |-> k0, curvStart |-> k0, curvEnd |-> k1,
     bU |-> 100, cU |-> 0, dU |-> 0, bV |-> 0, cV |-> cV, dV |-> dV,
     cosH |-> 1, sinH |-> 0]

SamLens == {0, 2, 62, 72, SamMaxLen}
SamShapes ==
    { <<"line", 0, 0, 0, 0>>, <<"arc", 100, 0, 0, 0>>,
      <<"spiral", 0, 0, 0, 0>>, <<"spiral", 150, 150, 0, 0>>, <<"spiral", 0, 200, 0, 0>>,
      <<"poly3", 0, 0, 0, 0>>, <<"poly3", 0, 0, -10, 30>> }
SamPrims == { Geom(sh[1], l, sh[2], sh[3], sh[4], sh[5]) : sh \in SamShapes, l \in SamLens }

\* planView of a road: each primitive starts where the previous one ends
RECURSIVE Contiguous(_, _)
Contiguous(gs, s0) ==
    IF gs = <<>> THEN <<>>
    ELSE <<[Head(gs) EXCEPT !.s = s0]>> \o Contiguous(Tail(gs), s0 + Head(gs).length)

SamRoads == { Contiguous(gs, 0) : gs \in UNION { [1..n -> SamPrims] : n \in 1..MaxPrims } }
SamOptions == { [step |-> 0, maxAngle |-> 0], [step |-> 60, maxAngle |-> 30],
                [step |-> 50, maxAngle |-> 30] }

SamIdle ==
    /\ samGeoms = <<>> /\ samOpts = [step |-> 0, maxAngle |-> 0]
    /\ samIdx = 0 /\ samPts = <<>> /\ samOut = <<>>

\* const out = []
SamStart ==
    /\ samGeoms \in SamRoads
    /\ samOpts \in SamOptions
    /\ samIdx = 0
    /\ samPts = <<>>
    /\ samOut = <<>>

\* for (const g of geoms) { ... }  -- one iteration
SamSegment ==
    /\ samIdx < Len(samGeoms)
    /\ samPts' = sampleSegmentAdaptive(samGeoms[samIdx + 1], sampleGeometrySequence_opts(samOpts))
    /\ samOut' = sampleGeometrySequence_push(samOut, ToAbsolute(samGeoms[samIdx + 1].s, samPts'))
    /\ samIdx' = samIdx + 1
    /\ UNCHANGED <<samGeoms, samOpts, notSam>>

\* the loop is over: return out
SamDone == samIdx = Len(samGeoms) /\ Len(samGeoms) > 0

-----------------------------------------------------------------------------
(* Lane-run builder       src/xodr/spline.js 407-423, 427, 683-829         *)
(*                        src/xodr/opendrive.js 134-143 (laneWidthAt)      *)
(*                                                                         *)
(* Units: widths and lateral offsets in millimetres; the arc length of a   *)
(* centreline sample in whole metres, that of a boundary point in          *)
(* millimetres; the interpolation parameter t in 1/1000.  A boundary point *)
(* offsetPoint(p, off) is modelled by [s, off]: the outer and the inner    *)
(* point of one station lie on the same normal, so their distance is the   *)
(* difference of the offsets.                                              *)

EPS == 5                 \* const EPS = 0.005

\* for (const w of widths) { if (sInSection + 1e-9 >= w.sOffset) seg = w; }
RECURSIVE PickWidthSeg(_, _, _)
PickWidthSeg(widths, sInSection, seg) ==
    IF widths = <<>> THEN seg
    ELSE PickWidthSeg(Tail(widths), sInSection,
                      IF sInSection >= Head(widths).sOffset THEN Head(widths) ELSE seg)

CubicAt(seg, ds) == seg.a + seg.b * ds + seg.c * ds * ds + seg.d * ds * ds * ds

laneWidthAt(widths, sInSection) ==
    IF Len(widths) = 0 THEN 0
    ELSE CubicAt(PickWidthSeg(widths, sInSection, widths[1]),
                 sInSection - PickWidthSeg(widths, sInSection, widths[1]).sOffset)

\* sectionAt(s), as the index road.laneSections.indexOf(sec); 0 stands for "no section"
RECURSIVE SectionScan(_, _, _, _)
SectionScan(secs, s, k, found) ==
    IF k > Len(secs) THEN found
    ELSE SectionScan(secs, s, k + 1, IF s >= secs[k].s THEN k ELSE found)
sectionAt(secs, s) == IF Len(secs) = 0 THEN 0 ELSE SectionScan(secs, s, 1, 1)

RECURSIVE PickOffsetRec(_, _, _)
PickOffsetRec(arr, s, rec) ==
    IF arr = <<>> THEN rec
    ELSE PickOffsetRec(Tail(arr), s, IF s >= Head(arr).s THEN Head(arr) ELSE rec)
laneOffsetAt(arr, s) ==
    IF Len(arr) = 0 THEN 0
    ELSE CubicAt(PickOffsetRec(arr, s, arr[1]), s - PickOffsetRec(arr, s, arr[1]).s)

NoNode == [si |-> 0, id |-> 0]      \* find(...) === undefined

\* track.nodes.find(n => n.si === si)
RECURSIVE FindNode(_, _)
FindNode(nodes, si) ==
    IF nodes = <<>> THEN NoNode
    ELSE IF Head(nodes).si = si THEN Head(nodes) ELSE FindNode(Tail(nodes), si)

\* widths.find(w => w.id === id)?.widths || []
RECURSIVE WidthsOfLane(_, _)
WidthsOfLane(lanes, id) ==
    IF lanes = <<>> THEN <<>>
    ELSE IF Head(lanes).id = id THEN Head(lanes).widths ELSE WidthsOfLane(Tail(lanes), id)

\* left:  for (ln of widths) if (ln.id <= id) outer += w
\* right: for (ln of sorted) if (ln.id >= id) outer -= w
RECURSIVE AccumulateOuter(_, _, _, _, _)
AccumulateOuter(lanes, side, id, sIn, outer) ==
    IF lanes = <<>> THEN outer
    ELSE AccumulateOuter(Tail(lanes), side, id, sIn,
            IF side = "left"
            THEN (IF Head(lanes).id <= id THEN outer + laneWidthAt(Head(lanes).widths, sIn) ELSE outer)
            ELSE (IF Head(lanes).id >= id THEN outer - laneWidthAt(Head(lanes).widths, sIn) ELSE outer))

SideLanes(road, si, side) == IF si = 0 THEN <<>> ELSE road.laneSections[si][side]
SectionS(road, si) == IF si = 0 THEN 0 ELSE road.laneSections[si].s

\* wCur of lane id in section si at s
WidthIn(road, si, side, id, s) ==
    laneWidthAt(WidthsOfLane(SideLanes(road, si, side), id), s - SectionS(road, si))

\* outer offset of lane id in section si at s
OuterIn(road, si, side, id, s) ==
    AccumulateOuter(SideLanes(road, si, side), side, id, s - SectionS(road, si),
                    laneOffsetAt(road.laneOffsets, s))

\* const t = (wCur - w0) !== 0 ? (EPS - w0) / (wCur - w0) : 0     (in 1/1000)
CrossingT(w0, wCur) == IF wCur - w0 /= 0 THEN Div((EPS - w0) * 1000, wCur - w0) ELSE 0

\* offPrevOuter + (outer - offPrevOuter) * t
Lerp(a, b, t) == a + Div((b - a) * t, 1000)

\* Mutation: the inner point of a crossing placed two thresholds from the outer one.
EpsInner_twice(side, offOuterInterp) ==
    IF side = "left" THEN offOuterInterp - 2 * EPS ELSE offOuterInterp + 2 * EPS

\* side === 'left' ? (offOuterInterp - EPS) : (offOuterInterp + EPS)
EpsInner(side, offOuterInterp) ==
    IF side = "left" THEN offOuterInterp - EPS ELSE offOuterInterp + EPS

\* (thisLane && (thisLane.type || 'none')) || 'none'
RECURSIVE TypeOfLane(_, _)
TypeOfLane(lanes, id) ==
    IF lanes = <<>> THEN "none"
    ELSE IF Head(lanes).id = id THEN Head(lanes).type ELSE TypeOfLane(Tail(lanes), id)

\* the boundary point pair pushed where the width crosses EPS between two samples
CrossingAt(side, s0, s1, t, offPrevOuter, outer) ==
    [outer |-> [s |-> s0 * 1000 + (s1 - s0) * t, off |-> Lerp(offPrevOuter, outer, t)],
     inner |-> [s |-> s0 * 1000 + (s1 - s0) * t,
                off |-> EpsInner(side, Lerp(offPrevOuter, outer, t))]]

\* node0 = track.nodes.find(n => n.si === si0) || node
Node0Id(track, si0, node) ==
    IF FindNode(track.nodes, si0) = NoNode THEN node.id ELSE FindNode(track.nodes, si0).id

CrossingIn(road, track, si0, s0, s1, node, wCur, outer) ==
    CrossingAt(track.side, s0, s1,
               CrossingT(WidthIn(road, si0, track.side, Node0Id(track, si0, node), s0), wCur),
               OuterIn(road, si0, track.side, Node0Id(track, si0, node), s0),
               outer)

Crossing(road, track, samples, i, node, wCur, outer) ==
    CrossingIn(road, track, sectionAt(road.laneSections, samples[i - 1]),
               samples[i - 1], samples[i], node, wCur, outer)

\* if (runOuter.length >= 2 && runInner.length >= 2) { ... features.push(feat) }
EmitRun(features, side, laneType, runOuter, runInner) ==
    IF Len(runOuter) >= 2 /\ Len(runInner) >= 2
    THEN Append(features, [side |-> side, laneType |-> laneType,
                           outer |-> runOuter, inner |-> runInner])
    ELSE features

\* if (!node) { if (active) { emit; runOuter=[]; runInner=[]; active=false; prevWidth=0 } continue }
StepNoNode(st, side) ==
    IF st.active
    THEN [st EXCEPT !.features = EmitRun(st.features, side, st.runType, st.runOuter, st.runInner),
                    !.runOuter = <<>>, !.runInner = <<>>, !.active = FALSE, !.prevWidth = 0]
    ELSE st

\* widthOk: open the run if needed (with the crossing point), push the sample's points
StepWide(st, i, s, cross, typeNow, wCur, outer, inner) ==
    [st EXCEPT
        !.runType = IF st.active THEN st.runType ELSE typeNow,
        !.active = TRUE,
        !.runOuter = (IF ~st.active /\ i > 1 /\ st.prevWidth <= EPS
                      THEN Append(st.runOuter, cross.outer) ELSE st.runOuter)
                     \o <<[s |-> s * 1000, off |-> outer]>>,
        !.runInner = (IF ~st.active /\ i > 1 /\ st.prevWidth <= EPS
                      THEN Append(st.runInner, cross.inner) ELSE st.runInner)
                     \o <<[s |-> s * 1000, off |-> inner]>>,
        !.prevWidth = wCur]

\* !widthOk: close an active run (with the crossing point), emit it
StepNarrow(st, i, side, cross, wCur) ==
    IF st.active
    THEN [st EXCEPT
            !.features = EmitRun(st.features, side, st.runType,
                                 IF i > 1 THEN Append(st.runOuter, cross.outer) ELSE st.runOuter,
                                 IF i > 1 THEN Append(st.runInner, cross.inner) ELSE st.runInner),
            !.runOuter = <<>>, !.runInner = <<>>, !.active = FALSE, !.prevWidth = wCur]
    ELSE [st EXCEPT !.prevWidth = wCur]

StepNode(st, road, track, samples, i, si, node, wCur, outer) ==
    IF wCur > EPS
    THEN StepWide(st, i, samples[i],
                  Crossing(road, track, samples, i, node, wCur, outer),
                  TypeOfLane(SideLanes(road, si, track.side), node.id), wCur, outer,
                  IF track.side = "left" THEN outer - wCur ELSE outer + wCur)
    ELSE StepNarrow(st, i, track.side,
                    Crossing(road, track, samples, i, node, wCur, outer), wCur)

StepAt(st, road, track, samples, i, si, node) ==
    IF node = NoNode THEN StepNoNode(st, track.side)
    ELSE StepNode(st, road, track, samples, i, si, node,
                  WidthIn(road, si, track.side, node.id, samples[i]),
                  OuterIn(road, si, track.side, node.id, samples[i]))

\* one iteration of for (let i = 0; i < samples.length; i++) in buildLaneRunsTrack
buildLaneRunsTrack_step(st, road, track, samples, i) ==
    StepAt(st, road, track, samples, i, sectionAt(road.laneSections, samples[i]),
           FindNode(track.nodes, sectionAt(road.laneSections, samples[i])))

\* a builder that drops the run still open after the last sample
buildLaneRunsTrack_finish_drop(st, track) == st

\* after the loop: if (active && runOuter.length >= 2 && runInner.length >= 2) emit
buildLaneRunsTrack_finish(st, track) ==
    IF st.active
    THEN [st EXCEPT !.features = EmitRun(st.features, track.side, st.runType, st.runOuter, st.runInner)]
    ELSE st

\* ---- bounded inputs of the lane-run model ----
LanMaxS == 4             \* the centreline is sampled on 0..LanMaxS metres
LanSecondAt == 2         \* s of the second lane section

W(sOffset, a, b, c, d) == [sOffset |-> sOffset, a |-> a, b |-> b, c |-> c, d |-> d]

LanWidths ==
    { <<W(0, 3500, 0, 0, 0)>>,                      \* constant width
      <<W(0, 0, 1000, 0, 0)>>,                      \* opens from zero
      <<W(0, 3000, -1000, 0, 0)>>,                  \* tapers out through zero
      <<W(0, 4, 0, 0, 0)>>,                         \* below the threshold
      <<W(0, 7, 0, 0, 0)>>,                         \* just above the threshold
      <<W(0, 0, 0, 0, 0), W(2, 3000, 0, 0, 0)>>,    \* appears at sOffset 2
      <<W(0, 1000, 0, -500, 100)>> }                \* cubic dip below zero
LanOuterWidths == { <<W(0, 3500, 0, 0, 0)>>, <<W(0, 3000, -1000, 0, 0)>> }

Lane(id, type, widths) == [id |-> id, type |-> type, widths |-> widths]
Sign(side) == IF side = "left" THEN 1 ELSE -1

\* lanes of one side of a section, sorted by id descending (readLanes)
LanSideLanes(side) ==
    { <<Lane(Sign(side), "driving", w)>> : w \in LanWidths }
    \cup { IF side = "left"
           THEN <<Lane(2, "shoulder", w2), Lane(1, "driving", w)>>
           ELSE <<Lane(-1, "driving", w), Lane(-2, "shoulder", w2)>> :
           w \in LanWidths, w2 \in LanOuterWidths }

LanSection(s, side, lanes) ==
    [s |-> s, left |-> IF side = "left" THEN lanes ELSE <<>>,
              right |-> IF side = "right" THEN lanes ELSE <<>>]

LanSections(side) ==
    { <<LanSection(0, side, l1)>> : l1 \in LanSideLanes(side) }
    \cup { <<LanSection(0, side, l1), LanSection(LanSecondAt, side, l2)>> :
           l1 \in LanSideLanes(side), l2 \in LanSideLanes(side) }

LanOffsets == { <<>>, <<[s |-> 0, a |-> 500, b |-> -100, c |-> 0, d |-> 0]>> }

LanRoads(side) ==
    { [laneSections |-> secs, laneOffsets |-> offs] : secs \in LanSections(side), offs \in LanOffsets }

\* tracks of one side: a lane node in the first section, the second, or both
LanTracks(side) ==
    { [side |-> side, nodes |-> ns] :
        ns \in { <<[si |-> 1, id |-> Sign(side)]>>,
                 <<[si |-> 2, id |-> Sign(side)]>>,
                 <<[si |-> 1, id |-> Sign(side)], [si |-> 2, id |-> Sign(side)]>>,
                 <<[si |-> 1, id |-> 2 * Sign(side)], [si |-> 2, id |-> Sign(side)]>> } }

LanSampleSets ==
    { [i \in 1..(LanMaxS + 1) |-> i - 1],
      [i \in 1..(LanMaxS \div 2 + 1) |-> 2 * (i - 1)] }

LanState0 ==
    [runOuter |-> <<>>, runInner |-> <<>>, active |-> FALSE, prevWidth |-> 0,
     runType |-> "", features |-> <<>>]

LanIdle ==
    /\ lanRoad = [laneSections |-> <<>>, laneOffsets |-> <<>>]
    /\ lanTrack = [side |-> "left", nodes |-> <<>>]
    /\ lanSamples = <<>>
    /\ lanI = 0
    /\ lanSt = LanState0
    /\ lanPc = "idle"

\* entry of buildLaneRunsTrack(track)
LanStart ==
    /\ \E side \in {"left", "right"} :
          /\ lanRoad \in LanRoads(side)
          /\ lanTrack \in LanTracks(side)
    /\ lanSamples \in LanSampleSets
    /\ lanI = 0
    /\ lanSt = LanState0
    /\ lanPc = "loop"

\* one iteration of the loop over the samples
LanSample ==
    /\ lanPc = "loop"
    /\ lanI < Len(lanSamples)
    /\ lanSt' = buildLaneRunsTrack_step(lanSt, lanRoad, lanTrack, lanSamples, lanI + 1)
    /\ lanI' = lanI + 1
    /\ UNCHANGED <<lanRoad, lanTrack, lanSamples, lanPc, notLan>>

\* the code after the loop; return features
LanFinish ==
    /\ lanPc = "loop"
    /\ lanI = Len(lanSamples)
    /\ lanSt' = buildLaneRunsTrack_finish(lanSt, lanTrack)
    /\ lanPc' = "done"
    /\ UNCHANGED <<lanRoad, lanTrack, lanSamples, lanI, notLan>>

-----------------------------------------------------------------------------
(* Screen geometry of the editor                        src/editor.js      *)
(*                                                                         *)
(* Units: coordinates and lengths in tenths of a pixel, unit vectors and   *)
(* tangents of angles in 1/1000, angles in milliradians, rounding factors  *)
(* k in 1/1000.  The projector (map.project / map.unproject) is the        *)
(* external collaborator; the model uses a fixed-scale one, under which a  *)
(* lng/lat pair and its screen point have the same numbers.                *)

Pt(x, y) == [x |-> x, y |-> y]
map_project(ll) == Pt(ll.x, ll.y)
map_unproject(p) == Pt(p.x, p.y)

PiMilli == 3142          \* Math.PI
TanHuge == 1000000       \* Math.tan(Math.PI / 2), a huge finite number
MinTangent == 10         \* Math.max(1.0, ...)

sub(a, b) == Pt(a.x - b.x, a.y - b.y)
add(a, b) == Pt(a.x + b.x, a.y + b.y)
mul(a, k) == Pt(Div(a.x * k, 1000), Div(a.y * k, 1000))
Hypot(dx, dy) == Isqrt(dx * dx + dy * dy)
len(v) == Hypot(v.x, v.y)
NormBy(v, L) == IF L > 0 THEN Pt(Div(v.x * 1000, L), Div(v.y * 1000, L)) ELSE Pt(0, 0)
norm(v) == NormBy(v, len(v))
leftN(v) == Pt(-v.y, v.x)
dot(a, b) == Div(a.x * b.x + a.y * b.y, 1000)
crossZ(a, b) == Div(a.x * b.y - a.y * b.x, 1000)
\* a sign that takes a zero cross product for a left turn
MathSign_left(a) == IF a >= 0 THEN 1 ELSE -1
MathSign(a) == IF a > 0 THEN 1 ELSE IF a < 0 THEN -1 ELSE 0

\* Math.atan on [0, 1], argument and result in 1/1000
AtanUnit(a) == Div(785 * a, 1000) - Div(a * (a - 1000) * (245 + Div(66 * a, 1000)), 1000000)

\* first-quadrant angle of (ax, ay), ax, ay >= 0, not both 0
AtanQuadrant(ax, ay) ==
    IF ax >= ay THEN AtanUnit(Div(ay * 1000, ax))
    ELSE PiMilli \div 2 - AtanUnit(Div(ax * 1000, ay))

AtanSigned(y, x, base) ==
    IF x >= 0 THEN (IF y >= 0 THEN base ELSE -base)
    ELSE (IF y >= 0 THEN PiMilli - base ELSE base - PiMilli)

\* Math.atan2(y, x)
Atan2(y, x) == IF x = 0 /\ y = 0 THEN 0 ELSE AtanSigned(y, x, AtanQuadrant(Abs(x), Abs(y)))

\* Math.acos(Math.max(-1, Math.min(1, c)))
AcosClamped(c) == Atan2(Isqrt(1000000 - Max(-1000, Min(1000, c)) * Max(-1000, Min(1000, c))),
                        Max(-1000, Min(1000, c)))

\* Math.sin on [0, pi/2]: x - x^3/6 + x^5/120 - x^7/5040
SinSeries(x, x2, x3) ==
    x - x3 \div 6 + ((x3 * x2) \div 1000) \div 120 - ((((x3 * x2) \div 1000) * x2) \div 1000) \div 5040
SinQuarter(x) == SinSeries(x, (x * x) \div 1000, (((x * x) \div 1000) * x) \div 1000)
SinTurn(m) ==
    IF m <= PiMilli \div 2 THEN SinQuarter(m)
    ELSE IF m <= PiMilli THEN SinQuarter(PiMilli - m)
    ELSE IF m <= PiMilli + PiMilli \div 2 THEN -SinQuarter(m - PiMilli)
    ELSE -SinQuarter(Max(0, 2 * PiMilli - m))
MathSin(th) == SinTurn(th % (2 * PiMilli))
MathCos(th) == MathSin(th + PiMilli \div 2)

\* Math.tan(alpha / 2) for alpha in [0, pi]
TanOf(s, c) == IF c <= 0 THEN TanHuge ELSE Div(s * 1000, c)
TanHalf(alpha) == TanOf(MathSin(alpha \div 2), MathCos(alpha \div 2))

-----------------------------------------------------------------------------
(* Axis rounding                                         src/editor.js     *)
(*                                                                         *)
(* An axis is a sequence of lng/lat points; its rounding map takes a       *)
(* vertex position to the stored factor k.  Positions count from 1 here    *)
(* (the code counts from 0): the internal vertices are 2 .. Len - 1.       *)

SegLen == 80             \* const segLen = 8

Clamp01(k) == Max(0, Min(1000, k))

getRoundK(m, idx) == IF idx \in DOMAIN m THEN m[idx] ELSE 1000

setRoundK(m, idx, k) == [j \in DOMAIN m \cup {idx} |-> IF j = idx THEN Clamp01(k) ELSE m[j]]

\* t_goal = (clamp(k) * minLen / alpha) * tanHalf
TangentGoal(k, minLen, alpha, tanHalf) ==
    Div(Div(Div(Clamp01(k) * minLen, 1000) * 1000, alpha) * tanHalf, 1000)

TangentBase(minLen) == Div(49 * minLen, 100)

TangentFor(alpha, tanHalf, minLen, k) ==
    IF ~(tanHalf > 0) THEN 0
    ELSE Max(0, Min(TangentGoal(k, minLen, alpha, tanHalf), TangentBase(minLen)))

TangentOf(alpha, minLen, k) ==
    IF ~(alpha > 1) THEN 0 ELSE TangentFor(alpha, TanHalf(alpha), minLen, k)

TangentAt(P0, P1, P2, k) ==
    TangentOf(AcosClamped(dot(norm(sub(P1, P0)), norm(sub(P2, P1)))),
              Min(len(sub(P1, P0)), len(sub(P2, P1))), k)

tangentLengthAt(coords, idx, m) ==
    IF idx <= 1 \/ idx >= Len(coords) THEN 0
    ELSE TangentAt(map_project(coords[idx - 1]), map_project(coords[idx]),
                   map_project(coords[idx + 1]), getRoundK(m, idx))

tangentLengthAtLL(m, axisCoordsLL, idx) == tangentLengthAt(axisCoordsLL, idx, m)

\* what one internal vertex contributes: its output points and the tangent
\* length t it was rounded with (-1 when the vertex is kept as it is)
Kept(P1) == [pts |-> <<map_unproject(P1)>>, t |-> -1]

ArcPoint(C, R, th) == Pt(C.x + Div(R * MathCos(th), 1000), C.y + Div(R * MathSin(th), 1000))

ArcPts(C, R, start, end, steps) ==
    [k \in 1 .. steps - 1 |-> map_unproject(ArcPoint(C, R, start + Div((end - start) * k, steps)))]

ArcSteps(start, end, R) == Max(2, CeilDiv(Abs(Div((end - start) * R, 1000)), SegLen))

ArcSweep(T1, T2, C, R, t, start, end) ==
    [pts |-> <<map_unproject(T1)>> \o ArcPts(C, R, start, end, ArcSteps(start, end, R))
               \o <<map_unproject(T2)>>,
     t |-> t]

ArcEnd(turn, a1, a2) ==
    IF turn > 0 THEN (IF a2 < a1 THEN a2 + 2 * PiMilli ELSE a2)
    ELSE (IF a2 > a1 THEN a2 - 2 * PiMilli ELSE a2)

ArcAngles(T1, T2, C, R, t, turn, a1, a2) == ArcSweep(T1, T2, C, R, t, a1, ArcEnd(turn, a1, a2))

ArcAround(T1, T2, C, R, t, turn) ==
    ArcAngles(T1, T2, C, R, t, turn, Atan2(T1.y - C.y, T1.x - C.x), Atan2(T2.y - C.y, T2.x - C.x))

ArcCentre(C1, C2) == Pt(Div(C1.x + C2.x, 2), Div(C1.y + C2.y, 2))

ArcBetween(T1, T2, v0, v1, turn, R, t) ==
    ArcAround(T1, T2, ArcCentre(add(T1, mul(leftN(v0), turn * R)), add(T2, mul(leftN(v1), turn * R))),
              R, t, turn)

ArcWith(P1, v0, v1, turn, tanHalf, t) ==
    ArcBetween(add(P1, mul(v0, -t)), add(P1, mul(v1, t)), v0, v1, turn, Div(t * 1000, tanHalf), t)

\* t_max = max(0, min(0.49 * min(l1, l2), max(0, min(l1 - t_prevN, l2 - t_nextN))))
TangentMax(l1, l2, t_prevN, t_nextN) ==
    Max(0, Min(TangentBase(Min(l1, l2)), Max(0, Min(l1 - t_prevN, l2 - t_nextN))))

\* t = Math.max(1.0, Math.min(t_goal, t_max))
FinalTangent(t_goal, t_max) == Max(MinTangent, Min(t_goal, t_max))

RoundWith(coords, m, i, P1, v0, v1, l1, l2, alpha, turn, tanHalf) ==
    IF tanHalf <= 0 THEN Kept(P1)
    ELSE ArcWith(P1, v0, v1, turn, tanHalf,
                 FinalTangent(TangentGoal(getRoundK(m, i), Min(l1, l2), alpha, tanHalf),
                              TangentMax(l1, l2,
                                  IF i - 1 >= 2 THEN tangentLengthAtLL(m, coords, i - 1) ELSE 0,
                                  IF i + 1 <= Len(coords) - 1 THEN tangentLengthAtLL(m, coords, i + 1) ELSE 0)))

RoundTurn(coords, m, i, P1, v0, v1, l1, l2, alpha, turn) ==
    IF alpha < 1 \/ turn = 0 THEN Kept(P1)
    ELSE RoundWith(coords, m, i, P1, v0, v1, l1, l2, alpha, turn, TanHalf(alpha))

RoundDirs(coords, m, i, P1, v0, v1, l1, l2) ==
    RoundTurn(coords, m, i, P1, v0, v1, l1, l2, AcosClamped(dot(v0, v1)), MathSign(crossZ(v0, v1)))

RoundAt(coords, m, i, P0, P1, P2) ==
    RoundDirs(coords, m, i, P1, norm(sub(P1, P0)), norm(sub(P2, P1)), len(sub(P1, P0)), len(sub(P2, P1)))

\* one pass of the loop over the internal vertices
RoundVertex(coords, m, i) ==
    RoundAt(coords, m, i, map_project(coords[i - 1]), map_project(coords[i]), map_project(coords[i + 1]))

RECURSIVE RoundFrom(_, _, _)
RoundFrom(coords, m, i) ==
    IF i > Len(coords) - 1 THEN <<>>
    ELSE <<RoundVertex(coords, m, i)>> \o RoundFrom(coords, m, i + 1)

RECURSIVE FlattenPts(_)
FlattenPts(rs) == IF rs = <<>> THEN <<>> ELSE Head(rs).pts \o FlattenPts(Tail(rs))

SmoothOut(coords, rs) ==
    <<map_unproject(map_project(coords[1]))>> \o FlattenPts(rs)
        \o <<map_unproject(map_project(coords[Len(coords)]))>>

smoothAxisCoords(coords, m) ==
    IF Len(coords) <= 2 THEN coords ELSE SmoothOut(coords, RoundFrom(coords, m, 2))

\* the tangent length of every vertex as the loop used it: 0 at the two ends,
\* -1 at a vertex kept as it is
SmoothTangents(coords, m) ==
    IF Len(coords) <= 2 THEN [i \in 1 .. Len(coords) |-> 0]
    ELSE [i \in 1 .. Len(coords) |->
            IF i = 1 \/ i = Len(coords) THEN 0 ELSE RoundVertex(coords, m, i).t]

SmMaxVerts == 4

SmPoints == {Pt(0, 0), Pt(100, 0), Pt(100, 10), Pt(0, 10), Pt(100, 100), Pt(200, 100)}

SmKs == {0, 500}

NoRepeat(cs) == \A i \in 1 .. Len(cs) - 1 : cs[i] # cs[i + 1]

SmAxes == UNION {{cs \in [1 .. n -> SmPoints] : NoRepeat(cs)} : n \in 2 .. SmMaxVerts}

SmIdle == smCoords = <<>> /\ smRound = <<>> /\ smOut = <<>> /\ smT = <<>> /\ smPc = "idle"

SmStart ==
    /\ smCoords \in SmAxes
    /\ smRound = <<>>
    /\ smOut = <<>>
    /\ smT = <<>>
    /\ smPc = "edit"

\* the radius control of the vertex popup stores a factor for one vertex
SmSetRoundK ==
    /\ smPc = "edit"
    /\ \E idx \in 2 .. Len(smCoords) - 1, k \in SmKs :
         /\ smRound' = setRoundK(smRound, idx, k)
    /\ UNCHANGED <<smCoords, smOut, smT, smPc, notSm>>

SmSmooth ==
    /\ smPc = "edit"
    /\ smOut' = smoothAxisCoords(smCoords, smRound)
    /\ smT' = SmoothTangents(smCoords, smRound)
    /\ smPc' = "smoothed"
    /\ UNCHANGED <<smCoords, smRound, notSm>>

\* ---- axes with degenerate vertices: a vertex repeated, edges on one line ----
DgMaxVerts == 4
DgPoints == {Pt(0, 0), Pt(1000, 0), Pt(2000, 0), Pt(1000, 1000)}
DgAxes == UNION {[1 .. n -> DgPoints] : n \in 3 .. DgMaxVerts}

\* an axis as a drag or a click left it, a vertex possibly on its neighbour
DgStart ==
    /\ smCoords \in DgAxes
    /\ smRound = <<>>
    /\ smOut = <<>>
    /\ smT = <<>>
    /\ smPc = "edit"

-----------------------------------------------------------------------------
(* Intersections of the axes                 src/editor.js 244-327         *)
(*                                                                         *)
(* An axis is [id, coords]; a candidate and an intersection point are      *)
(* [ll, axes].  Lengths in tenths of a pixel, the parameter t of a         *)
(* projection onto a segment in 1/1000.                                    *)

MinPixTol == 60               \* Math.max(6, snapVertexPx)
DefaultSnapVertexPx == 160    \* let snapVertexPx = 16

PixTol(snapVertexPx) == Max(MinPixTol, snapVertexPx)

asPoint(ll, axes) == [ll |-> ll, axes |-> axes]

asLine(a, rounding) == [id |-> a.id, coords |-> smoothAxisCoords(a.coords, rounding[a.id])]

RECURSIVE AsLines(_, _)
AsLines(axes, rounding) ==
    IF axes = <<>> THEN <<>> ELSE <<asLine(Head(axes), rounding)>> \o AsLines(Tail(axes), rounding)

\* turf.lineIntersect on one pair of segments p1-p2, p3-p4: the point at
\* uA = numeA / denom along p1-p2 when uA and uB both lie in [0, 1]
SegPoint(p1, p2, denom, numeA, numeB) ==
    IF denom = 0 THEN <<>>
    ELSE IF /\ 0 <= numeA * MathSign(denom) /\ numeA * MathSign(denom) <= Abs(denom)
            /\ 0 <= numeB * MathSign(denom) /\ numeB * MathSign(denom) <= Abs(denom)
         THEN <<Pt(p1.x + Div(numeA * (p2.x - p1.x), denom), p1.y + Div(numeA * (p2.y - p1.y), denom))>>
         ELSE <<>>

SegIntersect(p1, p2, p3, p4) ==
    SegPoint(p1, p2,
             (p4.y - p3.y) * (p2.x - p1.x) - (p4.x - p3.x) * (p2.y - p1.y),
             (p4.x - p3.x) * (p1.y - p3.y) - (p4.y - p3.y) * (p1.x - p3.x),
             (p2.x - p1.x) * (p1.y - p3.y) - (p2.y - p1.y) * (p1.x - p3.x))

AppendNew(out, ps) ==
    IF ps = <<>> \/ (\E k \in 1 .. Len(out) : out[k] = ps[1]) THEN out ELSE out \o ps

RECURSIVE LineIntersectFrom(_, _, _, _, _)
LineIntersectFrom(c1, c2, i, j, out) ==
    IF i > Len(c1) - 1 THEN out
    ELSE IF j > Len(c2) - 1 THEN LineIntersectFrom(c1, c2, i + 1, 1, out)
    ELSE LineIntersectFrom(c1, c2, i, j + 1,
                           AppendNew(out, SegIntersect(c1[i], c1[i + 1], c2[j], c2[j + 1])))

\* turf.lineIntersect(la, lb).features
lineIntersect(c1, c2) == LineIntersectFrom(c1, c2, 1, 1, <<>>)

\* checkTouch: the endpoint P against the segment from A along AB
TouchFoot(P, Q, pixTol, ids) ==
    IF Hypot(Q.x - P.x, Q.y - P.y) <= pixTol THEN <<asPoint(map_unproject(Q), ids)>> ELSE <<>>

TouchProj(P, A, AB, t, pixTol, ids) ==
    TouchFoot(P, Pt(A.x + Div(t * AB.x, 1000), A.y + Div(t * AB.y, 1000)), pixTol, ids)

TouchParam(P, A, AB, ab2, pixTol, ids) ==
    IF ab2 = 0 THEN <<>>
    ELSE TouchProj(P, A, AB,
                   Max(0, Min(1000, Div(((P.x - A.x) * AB.x + (P.y - A.y) * AB.y) * 1000, ab2))),
                   pixTol, ids)

TouchSeg(P, A, B, pixTol, ids) ==
    TouchParam(P, A, sub(B, A), (B.x - A.x) * (B.x - A.x) + (B.y - A.y) * (B.y - A.y), pixTol, ids)

RECURSIVE TouchFrom(_, _, _, _, _)
TouchFrom(ep, c2, i, pixTol, ids) ==
    IF i > Len(c2) - 1 THEN <<>>
    ELSE TouchSeg(map_project(ep), map_project(c2[i]), map_project(c2[i + 1]), pixTol, ids)
             \o TouchFrom(ep, c2, i + 1, pixTol, ids)

checkTouch(line1, line2, pixTol) ==
    TouchFrom(line1.coords[1], line2.coords, 1, pixTol, <<line1.id, line2.id>>)
        \o TouchFrom(line1.coords[Len(line1.coords)], line2.coords, 1, pixTol, <<line1.id, line2.id>>)

PushAll(pts, ids) == [k \in 1 .. Len(pts) |-> asPoint(pts[k], ids)]

\* the body of the loop over the pairs of axes
PairCandidates(la, lb, pixTol) ==
    PushAll(lineIntersect(la.coords, lb.coords), <<la.id, lb.id>>)
        \o checkTouch(la, lb, pixTol) \o checkTouch(lb, la, pixTol)

RECURSIVE Candidates(_, _, _, _)
Candidates(lines, i, j, pixTol) ==
    IF i > Len(lines) THEN <<>>
    ELSE IF j > Len(lines) THEN Candidates(lines, i + 1, i + 2, pixTol)
    ELSE PairCandidates(lines[i], lines[j], pixTol) \o Candidates(lines, i, j + 1, pixTol)

\* position of the first cluster within pixTol of P, 0 when there is none
RECURSIVE FindCluster(_, _, _, _)
FindCluster(clusters, P, pixTol, k) ==
    IF k > Len(clusters) THEN 0
    ELSE IF Hypot(P.x - clusters[k].x, P.y - clusters[k].y) <= pixTol THEN k
    ELSE FindCluster(clusters, P, pixTol, k + 1)

Ids(axes) == {axes[k] : k \in 1 .. Len(axes)}

\* found.pts.push(p); the centre becomes the running average
JoinCluster(cl, P, p) ==
    [x |-> Div(cl.x * cl.n + P.x, cl.n + 1), y |-> Div(cl.y * cl.n + P.y, cl.n + 1),
     n |-> cl.n + 1, axes |-> cl.axes \cup Ids(p.axes)]

PlaceCandidate(clusters, P, p, found) ==
    IF found = 0 THEN Append(clusters, [x |-> P.x, y |-> P.y, n |-> 1, axes |-> Ids(p.axes)])
    ELSE [clusters EXCEPT ![found] = JoinCluster(clusters[found], P, p)]

RECURSIVE ClusterFrom(_, _, _, _)
ClusterFrom(cand, k, clusters, pixTol) ==
    IF k > Len(cand) THEN clusters
    ELSE ClusterFrom(cand, k + 1,
                     PlaceCandidate(clusters, map_project(cand[k].ll), cand[k],
                                    FindCluster(clusters, map_project(cand[k].ll), pixTol, 1)),
                     pixTol)

\* the vertices in the order the merge loop visits them
RECURSIVE VertexOrder(_)
VertexOrder(axes) ==
    IF axes = <<>> THEN <<>>
    ELSE <<Head(axes).coords[1], Head(axes).coords[Len(Head(axes).coords)]>>
             \o Head(axes).coords \o VertexOrder(Tail(axes))

\* bestLL of one cluster; best = [has, d, ll]
BetterVertex(best, v, d, pixTol) ==
    IF (~best.has \/ d < best.d) /\ d <= pixTol THEN [has |-> TRUE, d |-> d, ll |-> v] ELSE best

RECURSIVE BestVertex(_, _, _, _, _)
BestVertex(vs, k, cl, pixTol, best) ==
    IF k > Len(vs) THEN best
    ELSE BestVertex(vs, k + 1, cl, pixTol,
                    BetterVertex(best, vs[k],
                                 Hypot(map_project(vs[k]).x - cl.x, map_project(vs[k]).y - cl.y), pixTol))

MergedPoint(cl, best) ==
    asPoint(IF best.has THEN best.ll ELSE map_unproject(Pt(cl.x, cl.y)), cl.axes)

MergeClusters(clusters, vs, pixTol) ==
    [k \in 1 .. Len(clusters) |->
        MergedPoint(clusters[k],
                    BestVertex(vs, 1, clusters[k], pixTol, [has |-> FALSE, d |-> 0, ll |-> Pt(0, 0)]))]

\* the value recomputeIntersectionsAll hands to setIntersections
recomputeIntersectionsAll(axes, rounding, snapVertexPx) ==
    MergeClusters(ClusterFrom(Candidates(AsLines(axes, rounding), 1, 2, PixTol(snapVertexPx)),
                              1, <<>>, PixTol(snapVertexPx)),
                  VertexOrder(axes), PixTol(snapVertexPx))

IxMaxVerts == 3

IxPoints == {Pt(0, 0), Pt(600, 0), Pt(180, -100), Pt(400, 120), Pt(300, -300)}

IxCoords == UNION {{cs \in [1 .. n -> IxPoints] : NoRepeat(cs)} : n \in 2 .. IxMaxVerts}

IxIdle == ixAxes = <<>> /\ ixSnapVertexPx = DefaultSnapVertexPx /\ ixIntersections = <<>> /\ ixPc = "idle"

IxStart ==
    /\ \E ca \in IxCoords, cb \in IxCoords :
           ixAxes = <<[id |-> 1, coords |-> ca], [id |-> 2, coords |-> cb]>>
    /\ ixSnapVertexPx = DefaultSnapVertexPx
    /\ ixIntersections = <<>>
    /\ ixPc = "edit"

\* the snapVertexPx input of the page
IxSetSnapVertexPx ==
    /\ ixPc = "edit"
    /\ \E v \in {0, DefaultSnapVertexPx} : ixSnapVertexPx' = v
    /\ UNCHANGED <<ixAxes, ixIntersections, ixPc, notIx>>

IxRecompute ==
    /\ ixPc = "edit"
    /\ ixIntersections' = recomputeIntersectionsAll(ixAxes, [a \in 1 .. Len(ixAxes) |-> <<>>], ixSnapVertexPx)
    /\ ixPc' = "done"
    /\ UNCHANGED <<ixAxes, ixSnapVertexPx, notIx>>

-----------------------------------------------------------------------------
(* The axis editor                                       src/editor.js     *)
(*                                                                         *)
(* The module-level variables of editor.js are the fields of one record.   *)
(* An axis id n stands for the string "axis_n", the id 0 for null; vertex  *)
(* positions count from 1, the position 0 stands for -1; the empty         *)
(* sequence stands for a null array.  Every handler is an operator from    *)
(* the state before to the state after.  The field pendingDrag is a        *)
(* history field: handleEditDragMove sets it when it moves a vertex and    *)
(* rebuildAndRenderEditorRoads clears it.                                   *)

RoundingOf(e, id) == IF id \in DOMAIN e.rounding THEN e.rounding[id] ELSE <<>>

AxisIds(e) == {e.axes[k].id : k \in 1 .. Len(e.axes)}

RoundingAll(e) == [id \in AxisIds(e) |-> RoundingOf(e, id)]

\* position of the axis with this id in roadsById, 0 when there is none
RECURSIVE AxisPos(_, _, _)
AxisPos(axes, id, k) ==
    IF k > Len(axes) THEN 0 ELSE IF axes[k].id = id THEN k ELSE AxisPos(axes, id, k + 1)

CoordsOf(e, id) == IF AxisPos(e.axes, id, 1) = 0 THEN <<>> ELSE e.axes[AxisPos(e.axes, id, 1)].coords

SetCoords(e, id, coords) == [e EXCEPT !.axes[AxisPos(e.axes, id, 1)].coords = coords]

\* projectOnSegPx: the point P against the segment a-b; d = -1 stands for
\* Infinity on a segment without length
ProjFoot(P, A, AB, t) ==
    [t |-> t,
     d |-> Hypot(A.x + Div(t * AB.x, 1000) - P.x, A.y + Div(t * AB.y, 1000) - P.y),
     coord |-> map_unproject(Pt(A.x + Div(t * AB.x, 1000), A.y + Div(t * AB.y, 1000)))]

ProjParam(P, A, AB, ab2) ==
    IF ab2 = 0 THEN [t |-> 0, d |-> -1, coord |-> Pt(0, 0)]
    ELSE ProjFoot(P, A, AB, Max(0, Min(1000, Div(((P.x - A.x) * AB.x + (P.y - A.y) * AB.y) * 1000, ab2))))

ProjAlong(P, A, AB) == ProjParam(P, A, AB, AB.x * AB.x + AB.y * AB.y)

projectOnSegPx(a, b, P) == ProjAlong(P, map_project(a), sub(map_project(b), map_project(a)))

\* cum: cumulative pixel length at every vertex
RECURSIVE CumFrom(_, _, _)
CumFrom(coords, i, cum) ==
    IF i > Len(coords) - 1 THEN cum
    ELSE CumFrom(coords, i + 1,
                 Append(cum, cum[Len(cum)] + len(sub(map_project(coords[i + 1]), map_project(coords[i])))))

Anchor(cum, seg, t, xy) ==
    [seg |-> seg, t |-> Max(0, Min(1000, t)),
     s |-> Max(0, Min(cum[Len(cum)], cum[seg] + Div(t * (cum[seg + 1] - cum[seg]), 1000))),
     coord |-> xy]

\* the nearest segment of coords to P; best = [d, seg, t, coord], seg = 0 for none
BetterSeg(best, pr, i) ==
    IF pr.d >= 0 /\ (best.seg = 0 \/ pr.d < best.d)
    THEN [d |-> pr.d, seg |-> i, t |-> pr.t, coord |-> pr.coord] ELSE best

RECURSIVE NearestSeg(_, _, _, _)
NearestSeg(coords, P, i, best) ==
    IF i > Len(coords) - 1 THEN best
    ELSE NearestSeg(coords, P, i + 1, BetterSeg(best, projectOnSegPx(coords[i], coords[i + 1], P), i))

NoSeg == [d |-> 0, seg |-> 0, t |-> 0, coord |-> Pt(0, 0)]

AnchorOf(cum, best) == IF best.seg > 0 THEN <<Anchor(cum, best.seg, best.t, best.coord)>> ELSE <<>>

RECURSIVE IntersectionAnchors(_, _, _, _, _)
IntersectionAnchors(id, coords, cum, pts, k) ==
    IF k > Len(pts) THEN <<>>
    ELSE (IF id \in pts[k].axes
          THEN AnchorOf(cum, NearestSeg(coords, map_project(pts[k].ll), 1, NoSeg))
          ELSE <<>>)
         \o IntersectionAnchors(id, coords, cum, pts, k + 1)

\* anchors.sort((a,b) => a.s - b.s)
RECURSIVE InsertByS(_, _)
InsertByS(s, x) ==
    IF s = <<>> THEN <<x>>
    ELSE IF Head(s).s <= x.s THEN <<Head(s)>> \o InsertByS(Tail(s), x)
    ELSE <<x>> \o s

RECURSIVE SortByS(_)
SortByS(s) == IF s = <<>> THEN <<>> ELSE InsertByS(SortByS(SubSeq(s, 1, Len(s) - 1)), s[Len(s)])

RECURSIVE Uniq(_, _, _)
Uniq(anchors, k, uniq) ==
    IF k > Len(anchors) THEN uniq
    ELSE Uniq(anchors, k + 1,
              IF uniq = <<>> \/ Abs(anchors[k].s - uniq[Len(uniq)].s) > 0
              THEN Append(uniq, anchors[k]) ELSE uniq)

\* a segment left as the loop over the vertices built it, its end not ensured
SegEnd_asis(seg, B) == seg

\* one output segment: A.coord, the vertices between, B.coord
SegEnd(seg, B) == IF seg[Len(seg)] # B.coord THEN Append(seg, B.coord) ELSE seg

SegBetween(coords, A, B) ==
    SegEnd(<<A.coord>> \o (IF A.seg = B.seg THEN <<>> ELSE SubSeq(coords, A.seg + 1, B.seg)), B)

RECURSIVE SegmentsFrom(_, _, _)
SegmentsFrom(coords, uniq, i) ==
    IF i > Len(uniq) - 1 THEN <<>>
    ELSE (IF uniq[i + 1].s <= uniq[i].s \/ Len(SegBetween(coords, uniq[i], uniq[i + 1])) < 2 THEN <<>>
          ELSE <<SegBetween(coords, uniq[i], uniq[i + 1])>>)
         \o SegmentsFrom(coords, uniq, i + 1)

SplitAt(coords, uniq) == IF Len(uniq) < 2 THEN <<>> ELSE SegmentsFrom(coords, uniq, 1)

SplitWith(id, coords, cum, pts) ==
    SplitAt(coords,
            Uniq(SortByS(<<Anchor(cum, 1, 0, coords[1]),
                           Anchor(cum, Len(coords) - 1, 1000, coords[Len(coords)])>>
                         \o IntersectionAnchors(id, coords, cum, pts, 1)),
                 1, <<>>))

SplitCoords(id, coords, pts) ==
    IF Len(coords) < 2 THEN <<>> ELSE SplitWith(id, coords, CumFrom(coords, 1, <<0>>), pts)

splitAxisByIntersections(feat, coordsOverride, pts) ==
    SplitCoords(feat.id, IF Len(coordsOverride) > 0 THEN coordsOverride ELSE feat.coords, pts)

\* segLines of one axis: the parts with at least two points
RECURSIVE SegLinesOf(_, _, _)
SegLinesOf(id, parts, i) ==
    IF i > Len(parts) THEN <<>>
    ELSE (IF Len(parts[i]) < 2 THEN <<>>
          ELSE <<[id |-> <<id, i>>, parentId |-> id, coords |-> parts[i]]>>)
         \o SegLinesOf(id, parts, i + 1)

RECURSIVE SegLines(_, _, _)
SegLines(e, axes, k) ==
    IF k > Len(axes) THEN <<>>
    ELSE SegLinesOf(axes[k].id,
                    splitAxisByIntersections(axes[k],
                                             smoothAxisCoords(axes[k].coords, RoundingOf(e, axes[k].id)),
                                             e.intersections), 1)
         \o SegLines(e, axes, k + 1)

\* the preview of the axis being drawn; its parentId -1 stands for '__drawing__'
DrawingLine(e) ==
    IF e.mode = "draw" /\ Len(e.drawingCoords) >= 2
    THEN <<[id |-> <<-1, 0>>, parentId |-> -1, coords |-> e.drawingCoords]>> ELSE <<>>

RebuildSegments(e) ==
    [e EXCEPT !.snapSegments = SegLines(e, e.axes, 1) \o DrawingLine(e), !.pendingDrag = FALSE]

editor_recomputeIntersectionsAll(e) ==
    [e EXCEPT !.intersections = recomputeIntersectionsAll(e.axes, RoundingAll(e), e.snapVertexPx)]

rebuildAndRenderEditorRoads(e) == RebuildSegments(editor_recomputeIntersectionsAll(e))

\* snapLngLatPixelPriority; best = [has, ll, dist]
ScorePoint(best, coord, mouse, vtxTolPx) ==
    IF len(sub(map_project(coord), mouse)) <= vtxTolPx
       /\ (~best.has \/ len(sub(map_project(coord), mouse)) < best.dist)
    THEN [has |-> TRUE, ll |-> coord, dist |-> len(sub(map_project(coord), mouse))]
    ELSE best

RECURSIVE ScorePoints(_, _, _, _, _)
ScorePoints(best, coords, k, mouse, vtxTolPx) ==
    IF k > Len(coords) THEN best
    ELSE ScorePoints(ScorePoint(best, coords[k], mouse, vtxTolPx), coords, k + 1, mouse, vtxTolPx)

RECURSIVE SnapPoints(_, _)
SnapPoints(pts, k) == IF k > Len(pts) THEN <<>> ELSE <<pts[k].ll>> \o SnapPoints(pts, k + 1)

RECURSIVE SnapVertices(_, _, _)
SnapVertices(segs, activeId, k) ==
    IF k > Len(segs) THEN <<>>
    ELSE (IF segs[k].parentId = activeId THEN <<>> ELSE segs[k].coords) \o SnapVertices(segs, activeId, k + 1)

ScoreSeg(best, pr, segTolPx) ==
    IF pr.d >= 0 /\ pr.d <= segTolPx /\ (~best.has \/ pr.d < best.dist)
    THEN [has |-> TRUE, ll |-> pr.coord, dist |-> pr.d] ELSE best

RECURSIVE ScoreSegs(_, _, _, _, _, _, _)
ScoreSegs(best, segs, activeId, k, i, mouse, segTolPx) ==
    IF k > Len(segs) THEN best
    ELSE IF segs[k].parentId = activeId \/ i > Len(segs[k].coords) - 1
         THEN ScoreSegs(best, segs, activeId, k + 1, 1, mouse, segTolPx)
         ELSE ScoreSegs(ScoreSeg(best, projectOnSegPx(segs[k].coords[i], segs[k].coords[i + 1], mouse), segTolPx),
                        segs, activeId, k, i + 1, mouse, segTolPx)

NoBest == [has |-> FALSE, ll |-> Pt(0, 0), dist |-> 0]

SnapSegment(e, lngLat, best) == IF best.has THEN best.ll ELSE lngLat

SnapVertex(e, lngLat, segTolPx, best) ==
    IF best.has THEN best.ll
    ELSE SnapSegment(e, lngLat, ScoreSegs(NoBest, e.snapSegments, e.activeId, 1, 1, map_project(lngLat), segTolPx))

snapLngLatPixelPriority(e, lngLat, segTolPx, vtxTolPx) ==
    SnapVertex(e, lngLat, segTolPx,
               ScorePoints(NoBest,
                           SnapPoints(e.intersections, 1) \o SnapVertices(e.snapSegments, e.activeId, 1),
                           1, map_project(lngLat), vtxTolPx))

MidpointHitPx == 80      \* Math.hypot(...) <= 8
MinGrabPx == 80          \* Math.max(8, snapPx)
radiusOffsetPx == 120    \* const radiusOffsetPx = 12
DefaultSnapPx == 100     \* let snapPx = 10
RebuildDelay == 30       \* scheduleRealtimeRebuild(30), in ms

\* the module-level variables as the script leaves them when it is loaded
EditorLoaded ==
    [axes |-> <<>>, rounding |-> <<>>, intersections |-> <<>>, snapSegments |-> <<>>,
     mode |-> "idle", selectEnabled |-> FALSE, activeId |-> 0, drawingCoords |-> <<>>,
     dragging |-> [on |-> FALSE, kind |-> "null", index |-> 0],
     snapPx |-> DefaultSnapPx, snapVertexPx |-> DefaultSnapVertexPx,
     selectedVertexIdx |-> 0, historyEdit |-> <<>>, dragPrevCoords |-> <<>>,
     realtimeTimer |-> 0, dragSnap |-> [type |-> "null", roadId |-> <<0, 0>>, segIndex |-> 0],
     nextN |-> 0, pendingDrag |-> FALSE]

\* Mutation: a schedule that sets no timeout.
scheduleRealtimeRebuild_never(e, delay) == e

\* realtimeTimer holds the delay of the pending timeout, 0 for null
scheduleRealtimeRebuild(e, delay) ==
    IF e.realtimeTimer # 0 THEN e ELSE [e EXCEPT !.realtimeTimer = delay]

\* the callback of the timeout
realtimeTimer_fire(e) == rebuildAndRenderEditorRoads([e EXCEPT !.realtimeTimer = 0])

editor_setRoundK(e, axisId, idx, k) ==
    [e EXCEPT !.rounding = [id \in DOMAIN e.rounding \cup {axisId} |->
                               IF id = axisId THEN setRoundK(RoundingOf(e, axisId), idx, k)
                               ELSE e.rounding[id]]]

enterSelectMode(e) == [e EXCEPT !.mode = "select", !.activeId = 0]

enterEdit(e, id) == [e EXCEPT !.activeId = id, !.mode = "edit", !.selectedVertexIdx = 0]

exitEdit(e) == [e EXCEPT !.activeId = 0, !.mode = IF e.selectEnabled THEN "select" ELSE "idle"]

\* hit is the id of the axis under the cursor, 0 for none
handleSelectClick(e, hit) ==
    IF e.mode # "select" THEN e ELSE IF hit # 0 THEN enterEdit(e, hit) ELSE e

Midpoint(a, b) == Pt(Div(a.x + b.x, 2), Div(a.y + b.y, 2))

\* insertAt: the position the new vertex takes, 0 for none
RECURSIVE InsertAt(_, _, _)
InsertAt(coords, mpx, i) ==
    IF i > Len(coords) - 1 THEN 0
    ELSE IF len(sub(map_project(Midpoint(coords[i], coords[i + 1])), mpx)) <= MidpointHitPx THEN i + 1
    ELSE InsertAt(coords, mpx, i + 1)

Splice(coords, at, v) == SubSeq(coords, 1, at - 1) \o <<v>> \o SubSeq(coords, at, Len(coords))

PushHistory(e, id, prevCoords) ==
    [e EXCEPT !.historyEdit = Append(e.historyEdit, [type |-> "edit", id |-> id, prevCoords |-> prevCoords])]

InsertVertex(e, coords) == PushHistory(SetCoords(e, e.activeId, coords), e.activeId, coords)

EditClickAt(e, pt, coords, insertAt, hitsEmpty) ==
    IF insertAt > 0
    THEN InsertVertex(e, Splice(coords, insertAt, snapLngLatPixelPriority(e, pt, e.snapPx, e.snapVertexPx)))
    ELSE IF hitsEmpty THEN exitEdit(e) ELSE e

handleEditClick(e, pt, hitsEmpty) ==
    EditClickAt(e, pt, CoordsOf(e, e.activeId), InsertAt(CoordsOf(e, e.activeId), map_project(pt), 1), hitsEmpty)

\* the vertex nearest to the point; best = [idx, d]
RECURSIVE NearestVertex(_, _, _, _)
NearestVertex(coords, p, i, best) ==
    IF i > Len(coords) THEN best
    ELSE NearestVertex(coords, p, i + 1,
                       IF best.idx = 0 \/ len(sub(map_project(coords[i]), p)) < best.d
                       THEN [idx |-> i, d |-> len(sub(map_project(coords[i]), p))] ELSE best)

VertexSelectAt(e, coords, idx) ==
    IF idx <= 1 \/ idx >= Len(coords) THEN [e EXCEPT !.selectedVertexIdx = 0]
    ELSE [e EXCEPT !.selectedVertexIdx = idx]

handleVertexSelect(e, point) ==
    IF Len(CoordsOf(e, e.activeId)) < 3 THEN e
    ELSE VertexSelectAt(e, CoordsOf(e, e.activeId),
                        NearestVertex(CoordsOf(e, e.activeId), point, 1, [idx |-> 0, d |-> 0]).idx)

MouseDownAt(e, coords, best) ==
    IF best.idx = 0 \/ ~(best.d <= Max(MinGrabPx, e.snapPx)) THEN e
    ELSE [e EXCEPT !.dragging = [on |-> TRUE, kind |-> "vertex", index |-> best.idx],
                   !.selectedVertexIdx = best.idx,
                   !.dragPrevCoords = coords]

handleEditMouseDown(e, point) ==
    MouseDownAt(e, CoordsOf(e, e.activeId),
                NearestVertex(CoordsOf(e, e.activeId), point, 1, [idx |-> 0, d |-> 0]))

\* the radius handle is drawn for the selected internal vertex only
handleRadiusMouseDown(e) ==
    IF e.mode # "edit" \/ e.activeId = 0 THEN e
    ELSE [e EXCEPT !.dragging = [on |-> TRUE, kind |-> "radius", index |-> e.selectedVertexIdx]]

\* on an edge without length the quotient is 0 / 0, which setRoundK stores as 0
RadiusK(t, alpha, tanHalf, minLen) ==
    IF minLen = 0 THEN 0 ELSE Max(0, Min(1000, Div(Div(t * alpha, tanHalf) * 1000, minLen)))

RadiusSet(e, i, t, alpha, tanHalf, minLen) ==
    rebuildAndRenderEditorRoads(editor_setRoundK(e, e.activeId, i, RadiusK(t, alpha, tanHalf, minLen)))

RadiusTan(e, coords, i, d, alpha, tanHalf, Lprev, Lnext) ==
    IF ~(tanHalf > 0) THEN e
    ELSE RadiusSet(e, i,
                   Max(0, Min(d - radiusOffsetPx,
                              TangentMax(Lprev, Lnext,
                                  IF i - 1 >= 2 THEN tangentLengthAt(coords, i - 1, RoundingOf(e, e.activeId)) ELSE 0,
                                  IF i + 1 <= Len(coords) - 1 THEN tangentLengthAt(coords, i + 1, RoundingOf(e, e.activeId)) ELSE 0))),
                   alpha, tanHalf, Min(Lprev, Lnext))

RadiusAngle(e, coords, i, d, alpha, Lprev, Lnext) ==
    IF ~(alpha > 1) THEN e ELSE RadiusTan(e, coords, i, d, alpha, TanHalf(alpha), Lprev, Lnext)

RadiusBis(e, coords, i, M, P0, P1, P2, v0, v1, bis) ==
    IF len(bis) = 0 THEN e
    ELSE RadiusAngle(e, coords, i, dot(sub(M, P1), norm(bis)), AcosClamped(dot(v0, v1)),
                     len(sub(P1, P0)), len(sub(P2, P1)))

RadiusDirs(e, coords, i, M, P0, P1, P2, v0, v1) ==
    RadiusBis(e, coords, i, M, P0, P1, P2, v0, v1, Pt(v1.x - v0.x, v1.y - v0.y))

RadiusAt(e, coords, i, M, P0, P1, P2) ==
    RadiusDirs(e, coords, i, M, P0, P1, P2, norm(sub(P1, P0)), norm(sub(P2, P1)))

RadiusDrag(e, coords, i, M) ==
    IF i <= 1 \/ i >= Len(coords) THEN e
    ELSE RadiusAt(e, coords, i, M, map_project(coords[i - 1]), map_project(coords[i]), map_project(coords[i + 1]))

handleRadiusDragMove(e, lngLat) ==
    IF ~(e.dragging.on /\ e.dragging.kind = "radius" /\ e.activeId # 0) THEN e
    ELSE RadiusDrag(e, CoordsOf(e, e.activeId), e.dragging.index, map_project(lngLat))

\* position of the snap segment with this id, 0 when there is none
RECURSIVE SegPos(_, _, _)
SegPos(segs, id, k) == IF k > Len(segs) THEN 0 ELSE IF segs[k].id = id THEN k ELSE SegPos(segs, id, k + 1)

\* the nearest segment of the other axes; best = [d, roadId, segIndex, ll], segIndex = 0 for none
BetterPin(best, pr, roadId, i) ==
    IF pr.d >= 0 /\ (best.segIndex = 0 \/ pr.d < best.d)
    THEN [d |-> pr.d, roadId |-> roadId, segIndex |-> i, ll |-> pr.coord] ELSE best

RECURSIVE NearestPin(_, _, _, _, _, _)
NearestPin(best, segs, activeId, k, i, mousePx) ==
    IF k > Len(segs) THEN best
    ELSE IF segs[k].parentId = activeId \/ i > Len(segs[k].coords) - 1
         THEN NearestPin(best, segs, activeId, k + 1, 1, mousePx)
         ELSE NearestPin(BetterPin(best, projectOnSegPx(segs[k].coords[i], segs[k].coords[i + 1], mousePx),
                                   segs[k].id, i),
                         segs, activeId, k, i + 1, mousePx)

NoPin == [d |-> 0, roadId |-> <<0, 0>>, segIndex |-> 0, ll |-> Pt(0, 0)]

\* coords[index] = out; the assignment one past the end extends the array
AssignAt(coords, index, out) ==
    IF index = Len(coords) + 1 THEN Append(coords, out) ELSE [coords EXCEPT ![index] = out]

\* the end of handleEditDragMove: the vertex takes the position out
DragTo(e, out, dragSnap) ==
    scheduleRealtimeRebuild(
        [SetCoords(e, e.activeId, AssignAt(CoordsOf(e, e.activeId), e.dragging.index, out))
            EXCEPT !.dragSnap = dragSnap, !.pendingDrag = TRUE],
        RebuildDelay)

DragPin(e, mouseLL, best, dragSnap) ==
    IF best.segIndex > 0 /\ best.d <= e.snapPx
    THEN DragTo(e, best.ll, [type |-> "segment", roadId |-> best.roadId, segIndex |-> best.segIndex])
    ELSE DragTo(e, mouseLL, dragSnap)

DragVertex(e, mouseLL, vtx, dragSnap) ==
    IF vtx # mouseLL THEN DragTo(e, vtx, [type |-> "vertex", roadId |-> <<0, 0>>, segIndex |-> 0])
    ELSE DragPin(e, mouseLL, NearestPin(NoPin, e.snapSegments, e.activeId, 1, 1, map_project(mouseLL)), dragSnap)

DragFree(e, mouseLL, dragSnap) ==
    DragVertex(e, mouseLL, snapLngLatPixelPriority(e, mouseLL, 0, e.snapVertexPx), dragSnap)

NoDragSnap == [type |-> "null", roadId |-> <<0, 0>>, segIndex |-> 0]

DragPinned(e, mouseLL, proj) ==
    IF proj.d >= 0 /\ proj.d <= e.snapPx + 40 THEN DragTo(e, proj.coord, e.dragSnap)
    ELSE DragFree(e, mouseLL, NoDragSnap)

DragOnSeg(e, mouseLL, k) ==
    IF k > 0 /\ e.dragSnap.segIndex + 1 <= Len(e.snapSegments[k].coords)
    THEN DragPinned(e, mouseLL,
                    projectOnSegPx(e.snapSegments[k].coords[e.dragSnap.segIndex],
                                   e.snapSegments[k].coords[e.dragSnap.segIndex + 1], map_project(mouseLL)))
    ELSE DragFree(e, mouseLL, NoDragSnap)

handleEditDragMove(e, mouseLL) ==
    IF ~e.dragging.on \/ e.dragging.index < 1 THEN e
    ELSE IF e.dragging.kind = "radius" THEN handleRadiusDragMove(e, mouseLL)
    ELSE IF AxisPos(e.axes, e.activeId, 1) = 0 THEN e
    ELSE IF e.dragSnap.type = "segment" THEN DragOnSeg(e, mouseLL, SegPos(e.snapSegments, e.dragSnap.roadId, 1))
    ELSE DragFree(e, mouseLL, e.dragSnap)

MouseUpHistory(e) ==
    IF e.dragPrevCoords # <<>>
    THEN [PushHistory(e, e.activeId, e.dragPrevCoords) EXCEPT !.dragPrevCoords = <<>>]
    ELSE e

handleMouseUp(e) ==
    IF e.dragging.on THEN MouseUpHistory(rebuildAndRenderEditorRoads([e EXCEPT !.dragging.on = FALSE]))
    ELSE e

Remove(coords, at) == SubSeq(coords, 1, at - 1) \o SubSeq(coords, at + 1, Len(coords))

DeleteAt(e, coords) ==
    rebuildAndRenderEditorRoads(
        PushHistory([SetCoords(e, e.activeId, Remove(coords, e.selectedVertexIdx))
                        EXCEPT !.selectedVertexIdx = Min(e.selectedVertexIdx, Len(coords) - 1)],
                    e.activeId, coords))

deleteSelectedVertex(e) ==
    IF e.mode # "edit" \/ e.selectedVertexIdx < 1 THEN e
    ELSE IF AxisPos(e.axes, e.activeId, 1) = 0 THEN e
    ELSE IF Len(CoordsOf(e, e.activeId)) <= 2 THEN e
    ELSE DeleteAt(e, CoordsOf(e, e.activeId))

UndoAct(e, act) ==
    IF act.id # 0 /\ act.prevCoords # <<>> /\ AxisPos(e.axes, act.id, 1) # 0
    THEN rebuildAndRenderEditorRoads(SetCoords(e, act.id, act.prevCoords))
    ELSE e

undoEdit(e) ==
    IF e.historyEdit = <<>> THEN e
    ELSE UndoAct([e EXCEPT !.historyEdit = SubSeq(e.historyEdit, 1, Len(e.historyEdit) - 1)],
                 e.historyEdit[Len(e.historyEdit)])

\* ---- the editorAxes payload ----
\* JSON.stringify writes a number as its shortest decimal text and
\* JSON.parse reads the text back.  A text is [neg, int, frac]: the sign,
\* the digits before and the digits after the point.  A coordinate counts
\* tenths (one decimal place), a rounding factor thousandths (three).

RECURSIVE DigitsOf(_)
DigitsOf(n) == IF n < 10 THEN <<n>> ELSE Append(DigitsOf(n \div 10), n % 10)

RECURSIVE NumberOf(_)
NumberOf(ds) == IF ds = <<>> THEN 0 ELSE NumberOf(SubSeq(ds, 1, Len(ds) - 1)) * 10 + ds[Len(ds)]

RECURSIVE Pow10(_)
Pow10(n) == IF n = 0 THEN 1 ELSE 10 * Pow10(n - 1)

\* the places digits of f, leading zeros included
RECURSIVE Padded(_, _)
Padded(f, places) == IF places = 0 THEN <<>> ELSE Append(Padded(f \div 10, places - 1), f % 10)

RECURSIVE StripZeros(_)
StripZeros(ds) ==
    IF ds # <<>> /\ ds[Len(ds)] = 0 THEN StripZeros(SubSeq(ds, 1, Len(ds) - 1)) ELSE ds

\* Mutation: a number written without its decimal places.
JSON_number_whole(v, places) ==
    [neg |-> v < 0, int |-> DigitsOf(Abs(v) \div Pow10(places)), frac |-> <<>>]

JSON_number(v, places) ==
    [neg |-> v < 0,
     int |-> DigitsOf(Abs(v) \div Pow10(places)),
     frac |-> StripZeros(Padded(Abs(v) % Pow10(places), places))]

JSON_parseNumber(txt, places) ==
    (IF txt.neg THEN -1 ELSE 1)
        * (NumberOf(txt.int) * Pow10(places) + NumberOf(txt.frac) * Pow10(places - Len(txt.frac)))

CoordPlaces == 1
RoundPlaces == 3

\* the id string `axis_${n}`
JSON_id(id) == <<"axis_">> \o DigitsOf(id)

JSON_parseId(txt) == IF txt = <<>> THEN 0 ELSE NumberOf(Tail(txt))

RECURSIVE JSON_coords(_, _)
JSON_coords(coords, i) ==
    IF i > Len(coords) THEN <<>>
    ELSE <<<<JSON_number(coords[i].x, CoordPlaces), JSON_number(coords[i].y, CoordPlaces)>>>>
         \o JSON_coords(coords, i + 1)

\* the keys of the rounding object are written in ascending order; the key
\* of the vertex at position idx is idx - 1
SetMin(S) == CHOOSE x \in S : \A y \in S : x <= y

RECURSIVE JSON_rounding(_, _)
JSON_rounding(m, keys) ==
    IF keys = {} THEN <<>>
    ELSE <<[key |-> DigitsOf(SetMin(keys) - 1), value |-> JSON_number(m[SetMin(keys)], RoundPlaces)]>>
         \o JSON_rounding(m, keys \ {SetMin(keys)})

\* axesBlob and its text
RECURSIVE JSON_axes(_, _)
JSON_axes(e, k) ==
    IF k > Len(e.axes) THEN <<>>
    ELSE <<[id |-> JSON_id(e.axes[k].id),
            coords |-> JSON_coords(e.axes[k].coords, 1),
            rounding |-> JSON_rounding(RoundingOf(e, e.axes[k].id), DOMAIN RoundingOf(e, e.axes[k].id))]>>
         \o JSON_axes(e, k + 1)

\* the editorAxes block of the exported document
ed_buildXodr(e) == [editorAxes |-> JSON_axes(e, 1)]

RECURSIVE ParseCoords(_, _)
ParseCoords(txt, i) ==
    IF i > Len(txt) THEN <<>>
    ELSE <<Pt(JSON_parseNumber(txt[i][1], CoordPlaces), JSON_parseNumber(txt[i][2], CoordPlaces))>>
         \o ParseCoords(txt, i + 1)

ParseRounding(txt) ==
    [idx \in {NumberOf(txt[j].key) + 1 : j \in 1 .. Len(txt)} |->
        JSON_parseNumber(txt[CHOOSE j \in 1 .. Len(txt) : NumberOf(txt[j].key) + 1 = idx].value, RoundPlaces)]

RECURSIVE ParseAxes(_, _)
ParseAxes(txt, k) ==
    IF k > Len(txt) THEN <<>>
    ELSE <<[id |-> JSON_parseId(txt[k].id),
            coords |-> ParseCoords(txt[k].coords, 1),
            rounding |-> ParseRounding(txt[k].rounding)]>>
         \o ParseAxes(txt, k + 1)

\* the page reads the editorAxes block of a loaded document and parses it
readEditorAxes(xml) == ParseAxes(xml.editorAxes, 1)

\* the loop of editorIngestEditorAxes over the records of the payload;
\* roadsById.set replaces the axis that has the id already
PutAxis(axes, id, coords) ==
    IF AxisPos(axes, id, 1) = 0 THEN Append(axes, [id |-> id, coords |-> coords])
    ELSE [axes EXCEPT ![AxisPos(axes, id, 1)].coords = coords]

IngestRecord(e, rec, id) ==
    [e EXCEPT !.axes = PutAxis(e.axes, id, rec.coords),
              !.rounding = [j \in DOMAIN e.rounding \cup {id} |-> IF j = id THEN rec.rounding ELSE e.rounding[j]],
              !.nextN = IF rec.id # 0 THEN e.nextN ELSE e.nextN + 1]

RECURSIVE IngestRecords(_, _, _)
IngestRecords(e, data, k) ==
    IF k > Len(data) THEN e
    ELSE IngestRecords(IngestRecord(e, data[k], IF data[k].id # 0 THEN data[k].id ELSE e.nextN + 1), data, k + 1)

IngestReset(e) ==
    IF e.mode # "draw" THEN [e EXCEPT !.activeId = 0, !.selectedVertexIdx = 0] ELSE e

editorIngestEditorAxes(e, data) ==
    enterSelectMode(rebuildAndRenderEditorRoads(IngestReset(editor_recomputeIntersectionsAll(
        IngestRecords([e EXCEPT !.axes = <<>>, !.rounding = <<>>], data, 1)))))

\* ---- the editing session ----
\* The pointer and its button belong to the page: edBtn is "up", "down"
\* (pressed, not moved since), "moved" or "handle" (pressed on the radius
\* handle); edAt is where the button went down.  A click follows a release
\* without movement.  What the map widget reports under the pointer is an
\* input of the event.

VertexRadiusPx == 60     \* 'circle-radius': 6 of the layer axis-verts
EdMaxVerts == 3          \* vertices of the edited axis
EdMaxHistory == 1        \* entries of historyEdit

EdMouse == {Pt(1000, 0), Pt(500, 80), Pt(255, 200)}

\* the payload the page hands over when the editor boots
EdPayload ==
    <<[id |-> 1, coords |-> <<Pt(0, 0), Pt(1000, 0)>>, rounding |-> <<>>],
      [id |-> 2, coords |-> <<Pt(250, -300), Pt(250, 600)>>, rounding |-> <<>>]>>

HitHalfWidthPx == 100   \* 'line-width': 20 of the layer axis-hit

\* the axes that the layer axis-hit shows under the pointer
NearAxis(coords, P) ==
    \E i \in 1 .. Len(coords) - 1 :
        /\ projectOnSegPx(coords[i], coords[i + 1], P).d >= 0
        /\ projectOnSegPx(coords[i], coords[i + 1], P).d <= HitHalfWidthPx

HitAxes(e, pt) == {e.axes[k].id : k \in {j \in 1 .. Len(e.axes) : NearAxis(e.axes[j].coords, map_project(pt))}}

\* hits[0] of handleSelectClick: one of them, 0 when there is none
EdHits(e, pt) == IF HitAxes(e, pt) = {} THEN {0} ELSE HitAxes(e, pt)

\* the bounds of the session: the vertices of an axis, and the entries of
\* historyEdit with the one a drag in progress will push
WithinBounds(e) ==
    /\ \A k \in 1 .. Len(e.axes) : Len(e.axes[k].coords) <= EdMaxVerts
    /\ Len(e.historyEdit) + (IF e.dragPrevCoords # <<>> THEN 1 ELSE 0) <= EdMaxHistory

OnVertex(e, pt) ==
    /\ e.mode = "edit"
    /\ \E i \in 1 .. Len(CoordsOf(e, e.activeId)) :
           len(sub(map_project(CoordsOf(e, e.activeId)[i]), map_project(pt))) <= VertexRadiusPx

\* the radius handle is on the map
HandleShown(e) ==
    /\ e.mode = "edit" /\ e.activeId # 0
    /\ Len(CoordsOf(e, e.activeId)) > 2
    /\ e.selectedVertexIdx >= 2 /\ e.selectedVertexIdx <= Len(CoordsOf(e, e.activeId)) - 1

\* the click event: the listener of the map, then the one of axis-verts
ClickOnVerts(e, pt, onVerts) == IF onVerts /\ e.mode = "edit" THEN handleVertexSelect(e, map_project(pt)) ELSE e

click(e, pt, hit, hitsEmpty, onVerts) ==
    IF e.mode = "select" THEN handleSelectClick(e, hit)
    ELSE IF e.mode = "edit" THEN ClickOnVerts(handleEditClick(e, pt, hitsEmpty), pt, onVerts)
    ELSE e

\* coords[index] = out further past the end leaves holes in the array; the
\* bounds of the session keep a drag from getting there
DragInRange(e) ==
    (e.mode = "edit" /\ e.dragging.on /\ e.dragging.kind = "vertex")
        => e.dragging.index <= Len(CoordsOf(e, e.activeId)) + 1

\* what the last event did to the axes
Outcome(before, after, name) ==
    IF after.axes # before.axes \/ after.rounding # before.rounding THEN name ELSE "event"

EdIdle == ed = EditorLoaded /\ edBtn = "up" /\ edAt = Pt(0, 0) /\ edLast = "load"

EdStart ==
    /\ ed = editorIngestEditorAxes(EditorLoaded, EdPayload)
    /\ edBtn = "up"
    /\ edAt = Pt(0, 0)
    /\ edLast = "boot"

EdMouseDown ==
    /\ edBtn = "up"
    /\ \E pt \in EdMouse :
          /\ ed' = IF OnVertex(ed, pt) THEN handleEditMouseDown(ed, map_project(pt)) ELSE ed
          /\ edAt' = pt
    /\ WithinBounds(ed')
    /\ edBtn' = "down"
    /\ edLast' = "event"
    /\ UNCHANGED notEd

EdRadiusMouseDown ==
    /\ edBtn = "up"
    /\ HandleShown(ed)
    /\ ed' = handleRadiusMouseDown(ed)
    /\ edBtn' = "handle"
    /\ edLast' = "event"
    /\ UNCHANGED <<edAt, notEd>>

EdMouseMove ==
    /\ edBtn # "up"
    /\ DragInRange(ed)
    /\ \E pt \in EdMouse :
          /\ ed' = IF ed.mode = "edit" THEN handleEditDragMove(ed, pt) ELSE ed
          /\ edLast' = IF ed.mode = "edit" /\ ed.dragging.on
                       THEN (IF ed.dragging.kind = "radius" THEN Outcome(ed, ed', "radius") ELSE "drag")
                       ELSE "event"
    /\ edBtn' = IF edBtn = "handle" THEN "handle" ELSE "moved"
    /\ UNCHANGED <<edAt, notEd>>

\* mouseup, and the click that follows a press without movement
EdMouseUp ==
    /\ edBtn # "up"
    /\ \E hit \in EdHits(ed, edAt), hitsEmpty \in BOOLEAN :
          /\ OnVertex(ed, edAt) => ~hitsEmpty
          /\ ed' = IF edBtn = "down"
                   THEN click(handleMouseUp(ed), edAt, hit, hitsEmpty, OnVertex(ed, edAt))
                   ELSE handleMouseUp(ed)
          /\ WithinBounds(ed')
    /\ edLast' = IF edBtn = "down" THEN Outcome(ed, ed', "insert")
                 ELSE IF ed.dragging.on /\ ed.dragging.kind = "vertex" THEN "moved"
                 ELSE "event"
    /\ edBtn' = "up"
    /\ UNCHANGED <<edAt, notEd>>

EdKeyDelete ==
    /\ ed.mode = "edit"
    /\ ed' = deleteSelectedVertex(ed)
    /\ WithinBounds(ed')
    /\ edLast' = Outcome(ed, ed', "delete")
    /\ UNCHANGED <<edBtn, edAt, notEd>>

EdKeyUndo ==
    /\ ed.mode = "edit"
    /\ ed' = undoEdit(ed)
    /\ edLast' = Outcome(ed, ed', "undo")
    /\ UNCHANGED <<edBtn, edAt, notEd>>

\* the timeout of scheduleRealtimeRebuild expires
EdTimerFire ==
    /\ ed.realtimeTimer # 0
    /\ ed' = realtimeTimer_fire(ed)
    /\ edLast' = "timer"
    /\ UNCHANGED <<edBtn, edAt, notEd>>

\* ---- the round trip through an exported document ----
RtMaxVerts == 3

RtPoints == {Pt(0, 0), Pt(1005, -20), Pt(-250, 307)}

RtKs == {0, 125}

RtCoords == UNION {{cs \in [1 .. n -> RtPoints] : NoRepeat(cs)} : n \in 2 .. RtMaxVerts}

\* the second axis is a single edge
RtEdges == {cs \in [1 .. 2 -> RtPoints] : NoRepeat(cs)}

NoXml == [editorAxes |-> <<>>]

RtIdle == rtEd = EditorLoaded /\ rtXml = NoXml /\ rtBefore = EditorLoaded /\ rtPc = "idle"

RtStart ==
    /\ \E ca \in RtCoords, cb \in RtEdges :
           rtEd = editorIngestEditorAxes(EditorLoaded,
                      <<[id |-> 1, coords |-> ca, rounding |-> <<>>],
                        [id |-> 12, coords |-> cb, rounding |-> <<>>]>>)
    /\ rtXml = NoXml
    /\ rtBefore = EditorLoaded
    /\ rtPc = "edit"

\* a rounding factor is set on an internal vertex of the first axis
RtSetRoundK ==
    /\ rtPc = "edit"
    /\ \E i \in 2 .. Len(rtEd.axes[1].coords) - 1, k \in RtKs :
           rtEd' = rebuildAndRenderEditorRoads(editor_setRoundK(rtEd, rtEd.axes[1].id, i, k))
    /\ UNCHANGED <<rtXml, rtBefore, rtPc, notRt>>

RtExport ==
    /\ rtPc = "edit"
    /\ rtXml' = ed_buildXodr(rtEd)
    /\ rtBefore' = rtEd
    /\ rtPc' = "exported"
    /\ UNCHANGED <<rtEd, notRt>>

\* the exported document is loaded again, into the editor as it is or into
\* one of a page just loaded
RtIngest ==
    /\ rtPc = "exported"
    /\ \E e \in {rtEd, EditorLoaded} : rtEd' = editorIngestEditorAxes(e, readEditorAxes(rtXml))
    /\ rtPc' = "ingested"
    /\ UNCHANGED <<rtXml, rtBefore, notRt>>

\* ---- ingests into the running editor ----
\* ang(a, b, c) of simplifyAxisForEditor, in milliradians
simplifyAxisForEditor_ang(a, b, c) ==
    IF Hypot(b.x - a.x, b.y - a.y) = 0 \/ Hypot(c.x - b.x, c.y - b.y) = 0 THEN 0
    ELSE AcosClamped(Div(((b.x - a.x) * (c.x - b.x) + (b.y - a.y) * (c.y - b.y)) * 1000,
                         Hypot(b.x - a.x, b.y - a.y) * Hypot(c.x - b.x, c.y - b.y)))

\* Math.max(0.5, angleDeg) * Math.PI / 180 for angleDeg = 2.5
SimplifyAngle == 44

\* the loop that keeps the corners
RECURSIVE simplifyAxisForEditor_corners(_, _, _)
simplifyAxisForEditor_corners(coords, i, out) ==
    IF i > Len(coords) - 1 THEN Append(out, coords[Len(coords)])
    ELSE simplifyAxisForEditor_corners(coords, i + 1,
            IF simplifyAxisForEditor_ang(Last(out), coords[i], coords[i + 1]) > SimplifyAngle
            THEN Append(out, coords[i]) ELSE out)

\* the loop that drops a point equal to the one kept before it
RECURSIVE simplifyAxisForEditor_dedupe(_, _)
simplifyAxisForEditor_dedupe(out, ded) ==
    IF out = <<>> THEN ded
    ELSE simplifyAxisForEditor_dedupe(Tail(out),
            IF ded = <<>> \/ Head(out) # Last(ded) THEN Append(ded, Head(out)) ELSE ded)

simplifyAxisForEditor_ded(coords, ded) == IF Len(ded) >= 2 THEN ded ELSE coords

simplifyAxisForEditor(coords) ==
    IF Len(coords) <= 2 THEN coords
    ELSE simplifyAxisForEditor_ded(coords,
            simplifyAxisForEditor_dedupe(simplifyAxisForEditor_corners(coords, 2, <<coords[1]>>), <<>>))

\* one feature of the collection: axis_n, its simplified coordinates, and
\* the factor 1 for every internal vertex
CenterlineRecord(e, n, coords) ==
    [e EXCEPT !.axes = PutAxis(e.axes, n, coords),
              !.rounding = [j \in DOMAIN e.rounding \cup {n} |->
                               IF j = n THEN [i \in 2 .. Len(coords) - 1 |-> 1000]
                               ELSE e.rounding[j]]]

RECURSIVE CenterlineRecords(_, _, _)
CenterlineRecords(e, features, n) ==
    IF n > Len(features) THEN e
    ELSE CenterlineRecords(CenterlineRecord(e, n, simplifyAxisForEditor(features[n])), features, n + 1)

\* roadsById is cleared, roundingByAxis is not
editorIngestFromCenterlines(e, features) ==
    rebuildAndRenderEditorRoads(IngestReset(editor_recomputeIntersectionsAll(
        CenterlineRecords([e EXCEPT !.axes = <<>>], features, 1))))

\* the factors a payload carries for the one internal vertex of its axis:
\* none, a factor in range, and factors a foreign document may hold
RtPayloadKs == {0, 500, 5000, -500}
RtPayloadRoundings == {<<>>} \cup { [j \in {2} |-> k] : k \in RtPayloadKs }
RtPayloads ==
    { <<[id |-> 1, coords |-> <<Pt(0, 0), Pt(1005, -20), Pt(-250, 307)>>, rounding |-> r]>> :
         r \in RtPayloadRoundings }
\* centrelines of one road with a corner, of a road with a bend too slight
\* to keep, and of two roads
RtCenterlines ==
    { <<ca>> : ca \in {cs \in RtCoords : Len(cs) = RtMaxVerts} }
    \cup { <<<<Pt(0, 0), Pt(500, -10), Pt(1005, -20)>>>>,
           <<<<Pt(0, 0), Pt(1005, -20), Pt(-250, 307)>>, <<Pt(-250, 307), Pt(0, 0)>>>> }

\* window.editorIngestEditorAxes(data), data read from the loaded document
RtIngestPayload ==
    /\ rtPc = "edit"
    /\ \E data \in RtPayloads : rtEd' = editorIngestEditorAxes(rtEd, data)
    /\ UNCHANGED <<rtXml, rtBefore, rtPc, notRt>>

\* window.editorIngestFromCenterlines(centerFC)
RtIngestCenterlines ==
    /\ rtPc = "edit"
    /\ \E features \in RtCenterlines : rtEd' = editorIngestFromCenterlines(rtEd, features)
    /\ UNCHANGED <<rtXml, rtBefore, rtPc, notRt>>

-----------------------------------------------------------------------------
(* Document loading: parseOpenDrive (src/xodr/opendrive.js) and loadXodr,  *)
(* buildGeometry (src/xodr/spline.js).  A document is its well-formedness  *)
(* and its road elements; a road element is its id attribute (0: absent),  *)
(* its length attribute (AttrAbsent: absent, AttrText: not a number) and   *)
(* its planView geometries.  The roads of this model carry no lanes.       *)
(* Lengths are in cm.                                                      *)

Null == [isNull |-> TRUE]
Undefined == -1          \* the value undefined of a number
AttrAbsent == -1         \* getAttribute returned null
AttrText == -2           \* the attribute holds text that is no number

\* function num(v)
num(v) == IF v = AttrAbsent THEN Undefined ELSE IF v = AttrText THEN Undefined ELSE v

\* the callback of doc.querySelectorAll('OpenDRIVE > road').forEach
parseOpenDrive_road(r) ==
    [id |-> r.id, length |-> num(r.length), planView |-> r.geoms,
     laneSections |-> <<>>, laneOffsets |-> <<>>]

\* a parser that answers unparsable text with an empty model
parseOpenDrive_lenient(xmlText) ==
    [threw |-> FALSE, message |-> "",
     model |-> [isNull |-> FALSE,
                roads |-> [k \in 1..Len(xmlText.roads) |->
                              parseOpenDrive_road(xmlText.roads[k])]]]

\* parseOpenDrive(xmlText) : the model, or the error thrown
parseOpenDrive(xmlText) ==
    IF ~xmlText.wellFormed
    THEN [threw |-> TRUE, message |-> "XML parse error", model |-> Null]
    ELSE [threw |-> FALSE, message |-> "",
          model |-> [isNull |-> FALSE,
                     roads |-> [k \in 1..Len(xmlText.roads) |->
                                   parseOpenDrive_road(xmlText.roads[k])]]]

\* QUALITY_PRESETS.normal, the preset that getQualityOptions returns
getQualityOptions == [step |-> 100, maxAngle |-> 50]

\* sampleGeometrySequence(geoms, opts), the loop from primitive k on
RECURSIVE sampleGeometrySequence_from(_, _, _, _)
sampleGeometrySequence_from(geoms, opts, k, out) ==
    IF k > Len(geoms) THEN out
    ELSE sampleGeometrySequence_from(geoms, opts, k + 1,
            sampleGeometrySequence_push(out,
                ToAbsolute(geoms[k].s, sampleSegmentAdaptive(geoms[k], opts))))

sampleGeometrySequence(geoms, opts) ==
    sampleGeometrySequence_from(geoms, sampleGeometrySequence_opts(opts), 1, <<>>)

\* the two passes of simplifyCenterlineSamples: a sample is kept when its s
\* is greater than the s of the sample kept last
RECURSIVE StrictlyIncreasing(_, _)
StrictlyIncreasing(ps, out) ==
    IF ps = <<>> THEN out
    ELSE StrictlyIncreasing(Tail(ps),
            IF out = <<>> \/ Last(out) < Head(ps) THEN Append(out, Head(ps)) ELSE out)

simplifyCenterlineSamples(samples, geoms) ==
    IF Len(geoms) = 0 THEN samples
    ELSE IF Len(StrictlyIncreasing(samples, <<>>)) >= 2
         THEN StrictlyIncreasing(samples, <<>>) ELSE samples

\* the body of "for (const road of model.roads)" : the features of one road,
\* none when the road has no geometry or fewer than two samples
buildGeometry_road(k, road, samples) ==
    IF Len(road.planView) = 0 \/ Len(samples) < 2
    THEN [centerFeatures |-> <<>>, edgeFeatures |-> <<>>]
    ELSE [centerFeatures |->
             <<[road |-> k, s |-> simplifyCenterlineSamples(samples, road.planView)]>>,
          edgeFeatures |->
             <<[kind |-> "edge", side |-> "left", roadId |-> road.id, s |-> samples],
               [kind |-> "edge", side |-> "right", roadId |-> road.id, s |-> samples]>>]

RECURSIVE buildGeometry_from(_, _, _, _)
buildGeometry_from(model, opts, k, geo) ==
    IF k > Len(model.roads) THEN geo
    ELSE buildGeometry_from(model, opts, k + 1,
            [isNull |-> FALSE,
             centerlines |-> geo.centerlines \o
                 buildGeometry_road(k, model.roads[k],
                     sampleGeometrySequence(model.roads[k].planView, opts)).centerFeatures,
             edges |-> geo.edges \o
                 buildGeometry_road(k, model.roads[k],
                     sampleGeometrySequence(model.roads[k].planView, opts)).edgeFeatures])

\* buildGeometry(model, projector, opts)
buildGeometry(model, opts) ==
    buildGeometry_from(model, opts, 1,
                       [isNull |-> FALSE, centerlines |-> <<>>, edges |-> <<>>])

\* loadXodr(xmlText), after parseOpenDrive returned or threw
loadXodr_parsed(st, r) ==
    IF r.threw
    THEN [st EXCEPT !.alert = "Failed to parse OpenDRIVE: " \o r.message]
    ELSE [currentModel |-> r.model,
          currentGeo |-> buildGeometry(r.model, getQualityOptions),
          alert |-> ""]

loadXodr(st, xmlText) == loadXodr_parsed([st EXCEPT !.alert = ""], parseOpenDrive(xmlText))

\* ---- bounded inputs of the loading model ----
LdMaxRoads == 2          \* road elements per document
LdRoadLen == 250         \* length of the one line of a road, cm

LdLine == Geom("line", LdRoadLen, 0, 0, 0, 0)
\* a complete road, and roads lacking the id, the length, or the geometry
LdRoadElements ==
    { [id |-> 7, length |-> LdRoadLen, geoms |-> <<LdLine>>],
      [id |-> 0, length |-> LdRoadLen, geoms |-> <<LdLine>>],
      [id |-> 7, length |-> AttrAbsent, geoms |-> <<LdLine>>],
      [id |-> 7, length |-> LdRoadLen, geoms |-> <<>>] }
\* a road whose length attribute is no number
LdTextLength == [id |-> 7, length |-> AttrText, geoms |-> <<LdLine>>]
LdTexts ==
    { [wellFormed |-> TRUE, roads |-> rs] :
         rs \in UNION { [1..n -> LdRoadElements] : n \in 0..LdMaxRoads } }
    \cup { [wellFormed |-> TRUE, roads |-> <<LdTextLength>>],
           [wellFormed |-> FALSE, roads |-> <<>>] }

LdIdle ==
    /\ currentModel = Null
    /\ currentGeo = Null
    /\ ldText = [wellFormed |-> TRUE, roads |-> <<>>]
    /\ ldPrev = [currentModel |-> Null, currentGeo |-> Null]
    /\ ldAlert = "idle"

\* the page before any document is loaded
LdStart ==
    /\ currentModel = Null
    /\ currentGeo = Null
    /\ ldText = [wellFormed |-> TRUE, roads |-> <<>>]
    /\ ldPrev = [currentModel |-> Null, currentGeo |-> Null]
    /\ ldAlert = ""

LdLoaded(st, xmlText) ==
    /\ currentModel' = st.currentModel
    /\ currentGeo' = st.currentGeo
    /\ ldAlert' = st.alert
    /\ ldText' = xmlText
    /\ ldPrev' = [currentModel |-> currentModel, currentGeo |-> currentGeo]

\* the user picks a file, or the bundled document arrives : loadXodr(t)
LdLoadXodr ==
    /\ ldAlert # "idle"
    /\ \E xmlText \in LdTexts :
         LdLoaded(loadXodr([currentModel |-> currentModel, currentGeo |-> currentGeo,
                            alert |-> ldAlert], xmlText), xmlText)
    /\ UNCHANGED notLd

-----------------------------------------------------------------------------
(* Sampling of one line: the samples [x, y, th, s] of sampleSegment and of *)
(* sampleSegmentAdaptive for a primitive of type line.  Lengths in cm,     *)
(* headings in milliradians.                                               *)

\* pts.push([x + s * Math.cos(hdg), y + s * Math.sin(hdg), hdg, s])
sampleSegment_linePoint(geom, s) ==
    [x |-> geom.x + Div(s * MathCos(geom.hdg), 1000),
     y |-> geom.y + Div(s * MathSin(geom.hdg), 1000),
     th |-> geom.hdg, s |-> s]

sampleSegment_linePoints(geom, ss) ==
    [i \in 1..Len(ss) |-> sampleSegment_linePoint(geom, ss[i])]

\* sampleSegment(geom, step), type line
sampleSegment_line(geom, step) ==
    sampleSegment_linePoints(geom, sampleSegment(geom.length, step))

\* sampleSegmentAdaptive(geom, {baseStep}), type line
sampleSegmentAdaptive_line(geom, baseStep) ==
    sampleSegment_linePoints(geom,
        sampleSegmentAdaptive(geom, [baseStep |-> baseStep, maxAngle |-> 0]))

\* ---- bounded inputs of the line model ----
LnMaxLen == 1000         \* longest line, cm

LnLens == {1, 35, 100, 250, LnMaxLen}
LnHeadings == {0, 785, 1571}
LnOrigins == {Pt(0, 0), Pt(500, -200)}
LnGeoms ==
    { [type |-> "line", s |-> 0, x |-> o.x, y |-> o.y, hdg |-> h, length |-> l] :
         o \in LnOrigins, h \in LnHeadings, l \in LnLens }
LnSteps == {10, 15, 20, 25, 50, 70, 100, 300}

LnIdle ==
    /\ lnGeom = [type |-> "line", s |-> 0, x |-> 0, y |-> 0, hdg |-> 0, length |-> 0]
    /\ lnStep = 0
    /\ lnPts = <<>>
    /\ lnPc = "idle"

LnStart ==
    /\ lnGeom \in LnGeoms
    /\ lnStep \in LnSteps
    /\ lnPts = <<>>
    /\ lnPc = "input"

\* sampleSegment(geom, step)
LnSampleSegment ==
    /\ lnPc = "input"
    /\ lnPts' = sampleSegment_line(lnGeom, lnStep)
    /\ lnPc' = "sampleSegment"
    /\ UNCHANGED <<lnGeom, lnStep, notLn>>

\* sampleSegmentAdaptive(geom, {baseStep: step})
LnSampleSegmentAdaptive ==
    /\ lnPc = "input"
    /\ lnPts' = sampleSegmentAdaptive_line(lnGeom, lnStep)
    /\ lnPc' = "sampleSegmentAdaptive"
    /\ UNCHANGED <<lnGeom, lnStep, notLn>>

-----------------------------------------------------------------------------
(* Lanes of a road: readLanes and the laneSection loop of parseOpenDrive   *)
(* (src/xodr/opendrive.js), then the lookups sectionAt and laneWidthAt of  *)
(* a sample.  A laneSection element is [s, left]; a lane element is        *)
(* [id, type, widths], its width elements in document order.               *)

\* lanes.sort((a, b) => b.id - a.id) : by id descending, stable
RECURSIVE readLanes_insert(_, _)
readLanes_insert(sorted, lane) ==
    IF sorted = <<>> THEN <<lane>>
    ELSE IF Head(sorted).id >= lane.id THEN <<Head(sorted)>> \o readLanes_insert(Tail(sorted), lane)
    ELSE <<lane>> \o sorted

RECURSIVE readLanes_sort(_, _)
readLanes_sort(lanes, sorted) ==
    IF lanes = <<>> THEN sorted
    ELSE readLanes_sort(Tail(lanes), readLanes_insert(sorted, Head(lanes)))

\* the callback of querySelectorAll(':scope > width').forEach
readLanes_width(w) ==
    [sOffset |-> num(w.sOffset), a |-> num(w.a), b |-> num(w.b), c |-> num(w.c), d |-> num(w.d)]

\* the callback of querySelectorAll(':scope > lane').forEach
readLanes_lane(lane) ==
    [id |-> num(lane.id), type |-> lane.type,
     widths |-> [k \in 1 .. Len(lane.widths) |-> readLanes_width(lane.widths[k])]]

\* readLanes(container)
readLanes(container) ==
    readLanes_sort([k \in 1 .. Len(container) |-> readLanes_lane(container[k])], <<>>)

\* the loop over ':scope > lanes > laneSection' of parseOpenDrive
parseOpenDrive_laneSections(elements) ==
    [k \in 1 .. Len(elements) |->
        [s |-> num(elements[k].s), left |-> readLanes(elements[k].left), right |-> <<>>]]

\* ---- bounded inputs of the lanes model ----
PlMaxWidths == 2         \* width elements per lane
PlMaxS == 3              \* samples at s = 0 .. PlMaxS

PlWidthElements == { W(0, 3000, 0, 0, 0), W(1, 2000, 100, 0, 0), W(2, 1000, 0, 0, 0) }
\* the width elements of a lane, in any order
PlWidths ==
    UNION { { ws \in [1 .. n -> PlWidthElements] :
                \A i, j \in 1 .. n : i # j => ws[i] # ws[j] } : n \in 1 .. PlMaxWidths }
PlLanes ==
    { <<Lane(1, "driving", ws)>> : ws \in PlWidths }
    \cup { <<Lane(1, "driving", ws), Lane(2, "shoulder", <<W(0, 500, 0, 0, 0)>>)>> : ws \in PlWidths }
\* one section, or two in either order
PlXmls ==
    { <<[s |-> 0, left |-> l]>> : l \in PlLanes }
    \cup { <<[s |-> 0, left |-> l], [s |-> 2, left |-> <<Lane(1, "driving", <<W(0, 700, 0, 0, 0)>>)>>]>> :
              l \in PlLanes }
    \cup { <<[s |-> 2, left |-> <<Lane(1, "driving", <<W(0, 700, 0, 0, 0)>>)>>], [s |-> 0, left |-> l]>> :
              l \in PlLanes }

PlIdle ==
    /\ plXml = <<>> /\ plSections = <<>> /\ plS = 0 /\ plSec = 0 /\ plW = 0 /\ plPc = "idle"

PlStart ==
    /\ plXml \in PlXmls
    /\ plSections = <<>> /\ plS = 0 /\ plSec = 0 /\ plW = 0 /\ plPc = "xml"

\* parseOpenDrive reads the lanes of the road
PlParse ==
    /\ plPc = "xml"
    /\ plSections' = parseOpenDrive_laneSections(plXml)
    /\ plPc' = "parsed"
    /\ UNCHANGED <<plXml, plS, plSec, plW, notPl>>

\* the lane of a section that lies next to the centre line
PlInnerWidths(sec) == WidthsOfLane(sec.left, 1)

\* buildGeometry looks up the section and the lane width of one sample
PlSample ==
    /\ plPc \in {"parsed", "sampled"}
    /\ \E s \in 0 .. PlMaxS :
          /\ plS' = s
          /\ plSec' = sectionAt(plSections, s)
          /\ plW' = laneWidthAt(PlInnerWidths(plSections[sectionAt(plSections, s)]),
                                s - plSections[sectionAt(plSections, s)].s)
    /\ plPc' = "sampled"
    /\ UNCHANGED <<plXml, plSections, notPl>>

-----------------------------------------------------------------------------
(* rebuildAndRenderEditorRoads up to the segments: the intersections are   *)
(* recomputed, then every axis is split at them (src/editor.js 329-341).   *)

SpMaxVerts == 3

SpPoints == {Pt(0, 0), Pt(600, 0), Pt(180, -100), Pt(400, 120), Pt(300, -300)}

\* the first axis: any polyline without repeated vertices
SpCoords == UNION {{cs \in [1 .. n -> SpPoints] : NoRepeat(cs)} : n \in 2 .. SpMaxVerts}

\* the second axis: straight, bent, or two coincident vertices
SpOthers ==
    { <<Pt(0, 0), Pt(600, 0)>>,
      <<Pt(0, 0), Pt(300, -300), Pt(600, 0)>>,
      <<Pt(300, 0), Pt(300, 0)>> }

\* no stored factor (the default rounds the vertex), or the factor 0 at the
\* inner vertex (the axis stays a polyline)
SpRoundings == {<<>>, [j \in {2} |-> 0]}

SpIdle ==
    /\ spAxes = <<>> /\ spRounding = <<>> /\ spIntersections = <<>>
    /\ spSmooth = <<>> /\ spParts = <<>> /\ spPc = "idle"

SpStart ==
    /\ \E ca \in SpCoords, cb \in SpOthers :
           spAxes = <<[id |-> 1, coords |-> ca], [id |-> 2, coords |-> cb]>>
    /\ spRounding = [a \in 1 .. 2 |-> <<>>]
    /\ spIntersections = <<>> /\ spSmooth = <<>> /\ spParts = <<>>
    /\ spPc = "edit"

\* the radius control: the rounding of one axis
SpSetRounding ==
    /\ spPc = "edit"
    /\ \E a \in 1 .. 2, m \in SpRoundings : spRounding' = [spRounding EXCEPT ![a] = m]
    /\ UNCHANGED <<spAxes, spIntersections, spSmooth, spParts, spPc, notSp>>

\* parts of every axis, split at the intersections pts
SpSplitAll(axes, rounding, pts) ==
    [a \in 1 .. Len(axes) |->
        splitAxisByIntersections(axes[a], smoothAxisCoords(axes[a].coords, rounding[axes[a].id]), pts)]

SpRebuild ==
    /\ spPc = "edit"
    /\ spIntersections' = recomputeIntersectionsAll(spAxes, spRounding, DefaultSnapVertexPx)
    /\ spSmooth' = [a \in 1 .. Len(spAxes) |-> smoothAxisCoords(spAxes[a].coords, spRounding[spAxes[a].id])]
    /\ spParts' = SpSplitAll(spAxes, spRounding,
                             recomputeIntersectionsAll(spAxes, spRounding, DefaultSnapVertexPx))
    /\ spPc' = "built"
    /\ UNCHANGED <<spAxes, spRounding, notSp>>

-----------------------------------------------------------------------------
(* A session with every mode of the editor: the buttons drawAxis and       *)
(* editAxis, the listeners of the map and of the keyboard, and the two     *)
(* ingests that index.js runs when a document is loaded.                   *)
(*                                         src/editor.js 695-764, 1076-1175 *)

cancelDrawing(e) ==
    [e EXCEPT !.drawingCoords = <<>>, !.mode = IF e.selectEnabled THEN "select" ELSE "idle", !.activeId = 0]

\* roadsById.set(id, feat) with id = nextId(), then the switch to edit mode
finishDrawing_set(e, id) ==
    rebuildAndRenderEditorRoads(
        [e EXCEPT !.axes = PutAxis(e.axes, id, e.drawingCoords), !.nextN = id,
                  !.activeId = id, !.mode = "edit", !.drawingCoords = <<>>])

\* finishDrawing without its check of the number of vertices
finishDrawing_unchecked(e) == finishDrawing_set(e, e.nextN + 1)

finishDrawing(e) ==
    IF Len(e.drawingCoords) < 2 THEN cancelDrawing(e) ELSE finishDrawing_set(e, e.nextN + 1)

handleDrawClick_at(e, snapped) ==
    IF Len(e.drawingCoords) = 0 THEN [e EXCEPT !.drawingCoords = <<snapped>>]
    ELSE IF len(sub(map_project(snapped), map_project(Last(e.drawingCoords)))) <= Max(MinGrabPx, e.snapPx)
    THEN finishDrawing(e)
    ELSE [e EXCEPT !.drawingCoords = Append(e.drawingCoords, snapped)]

handleDrawClick(e, lngLat) ==
    handleDrawClick_at(e, snapLngLatPixelPriority(e, lngLat, e.snapPx, e.snapVertexPx))

DblClickMinPx == 5       \* Math.hypot(...) > 0.5

\* the listener of 'dblclick'
dblclick_at(e, snap) ==
    finishDrawing(IF Len(e.drawingCoords) > 0
                     /\ len(sub(map_project(Last(e.drawingCoords)), map_project(snap))) > DblClickMinPx
                  THEN [e EXCEPT !.drawingCoords = Append(e.drawingCoords, snap)] ELSE e)

dblclick(e, lngLat) ==
    IF e.mode # "draw" THEN e
    ELSE dblclick_at(e, snapLngLatPixelPriority(e, lngLat, e.snapPx, e.snapVertexPx))

\* the click listener of the button drawAxis
drawAxis_click(e) ==
    [e EXCEPT !.mode = "draw", !.activeId = 0, !.drawingCoords = <<>>, !.selectEnabled = FALSE]

\* the click listener of the button editAxis
editAxis_click(e) ==
    IF ~e.selectEnabled
    THEN (IF e.mode # "draw" THEN enterSelectMode([e EXCEPT !.selectEnabled = TRUE])
          ELSE [e EXCEPT !.selectEnabled = TRUE])
    ELSE (IF e.mode # "draw" THEN [e EXCEPT !.selectEnabled = FALSE, !.mode = "idle", !.activeId = 0]
          ELSE [e EXCEPT !.selectEnabled = FALSE])

undoDrawPoint(e) ==
    IF e.mode # "draw" \/ Len(e.drawingCoords) = 0 THEN e
    ELSE [e EXCEPT !.drawingCoords = SubSeq(e.drawingCoords, 1, Len(e.drawingCoords) - 1)]

\* the keydown listener of the document
keydown_Escape(e) ==
    IF e.mode = "draw" THEN cancelDrawing(e) ELSE IF e.mode = "edit" THEN exitEdit(e) ELSE e

keydown_Delete(e) == IF e.mode = "edit" THEN deleteSelectedVertex(e) ELSE e

keydown_KeyZ(e) ==
    IF e.mode = "edit" THEN undoEdit(e) ELSE IF e.mode = "draw" THEN undoDrawPoint(e) ELSE e

PreviewDelay == 60       \* scheduleRealtimeRebuild(60), in ms

\* the listener of 'mousemove'
mousemove(e, lngLat) ==
    IF e.mode = "draw"
    THEN (IF Len(e.drawingCoords) > 0 THEN scheduleRealtimeRebuild(e, PreviewDelay) ELSE e)
    ELSE IF e.mode = "edit" THEN handleEditDragMove(e, lngLat)
    ELSE e

\* the listeners of 'click': the one of the map, then the one of axis-verts
map_click(e, pt, hit, hitsEmpty, onVerts) ==
    IF e.mode = "draw" THEN handleDrawClick(e, pt) ELSE click(e, pt, hit, hitsEmpty, onVerts)

\* ---- bounded inputs of the session ----
SeMaxPoints == 4         \* vertices of all axes and of the axis being drawn together
SeMaxHistory == 1        \* entries of historyEdit
DrMaxPoints == 3         \* the same two bounds for a session that starts without axes
DrMaxHistory == 1

\* where the pointer clicks: two points and the point half way
SeMouse == {Pt(0, 0), Pt(500, 0), Pt(1000, 0)}

\* where the pointer clicks while an axis is drawn
SeDrawAt == {Pt(0, 0), Pt(1000, 0)}

\* where a dragged vertex is taken
SeDragTo == {Pt(0, 1000)}

SeRoundings == {<<>>, [j \in {2} |-> 500]}

\* the editorAxes payloads of the documents that are loaded
SePayloads ==
    { <<[id |-> 1, coords |-> <<Pt(0, 0), Pt(1000, 0), Pt(1000, 1000)>>, rounding |-> r]>> :
         r \in SeRoundings }

\* the payload of a document loaded later in the session
SeReloads == { <<[id |-> 1, coords |-> <<Pt(0, 0), Pt(1000, 0), Pt(1000, 1000)>>, rounding |-> <<>>]>> }

\* the centrelines of a document without payload
SeCenterlines == { <<<<Pt(0, 0), Pt(0, 1000), Pt(1000, 1000)>>>> }

NoMark == [kind |-> "none", axes |-> <<>>, rounding |-> <<>>, undone |-> FALSE]

Mark(kind, e) == [kind |-> kind, axes |-> e.axes, rounding |-> e.rounding, undone |-> FALSE]

\* the mark after an event that is no edit: a load stays marked as long as
\* the axes stay as they are
MarkKept(mark, before, after) ==
    IF mark.kind = "ingest" /\ after.axes = before.axes THEN mark ELSE NoMark

\* the mark after an event that may have edited the axes
MarkEdit(mark, before, after, kind, was) ==
    IF after.axes # before.axes THEN Mark(kind, was) ELSE MarkKept(mark, before, after)

RECURSIVE SePoints(_, _)
SePoints(axes, k) == IF k > Len(axes) THEN 0 ELSE Len(axes[k].coords) + SePoints(axes, k + 1)

SeWithin(e, maxPoints, maxHistory) ==
    /\ SePoints(e.axes, 1) + Len(e.drawingCoords) <= maxPoints
    /\ Len(e.historyEdit) + (IF e.dragPrevCoords # <<>> THEN 1 ELSE 0) <= maxHistory

SeIdle ==
    /\ se = EditorLoaded /\ seBtn = "up" /\ seAt = Pt(0, 0) /\ seMark = NoMark

\* the page has booted and consumed the payload of its document
SeStart ==
    /\ \E data \in SePayloads : se = editorIngestEditorAxes(EditorLoaded, data)
    /\ seBtn = "up" /\ seAt = Pt(0, 0) /\ seMark = NoMark

\* the page has booted without a document: there is no axis yet
SeBlank ==
    /\ se = EditorLoaded
    /\ seBtn = "up" /\ seAt = Pt(0, 0) /\ seMark = NoMark

\* ---- the events: what each does to the editor and to the pointer ----
ButtonEvent(after) ==
    /\ seBtn = "up"
    /\ se' = after
    /\ UNCHANGED <<seBtn, seAt, notSe>>

MouseDownEvent(maxPoints, maxHistory) ==
    /\ seBtn = "up"
    /\ \E pt \in (IF se.mode = "draw" THEN SeDrawAt ELSE SeMouse) :
          /\ se' = IF OnVertex(se, pt) THEN handleEditMouseDown(se, map_project(pt)) ELSE se
          /\ seAt' = pt
    /\ SeWithin(se', maxPoints, maxHistory)
    /\ seBtn' = "down"
    /\ UNCHANGED notSe

\* the pointer moves with the button down: over the drawing or with a vertex
MouseMoveEvent ==
    /\ seBtn # "up"
    /\ (se.mode = "draw" /\ Len(se.drawingCoords) > 0) \/ (se.mode = "edit" /\ se.dragging.on)
    /\ DragInRange(se)
    /\ \E pt \in SeDragTo : se' = mousemove(se, pt)
    /\ seBtn' = "moved"
    /\ UNCHANGED <<seAt, notSe>>

\* mouseup, and the click that follows a press without movement
MouseUpEvent(maxPoints, maxHistory) ==
    /\ seBtn # "up"
    /\ \E hit \in EdHits(se, seAt), hitsEmpty \in BOOLEAN :
          /\ OnVertex(se, seAt) => ~hitsEmpty
          /\ se' = IF seBtn = "down"
                   THEN map_click(handleMouseUp(se), seAt, hit, hitsEmpty, OnVertex(se, seAt))
                   ELSE handleMouseUp(se)
    /\ SeWithin(se', maxPoints, maxHistory)
    /\ seBtn' = "up"
    /\ seAt' = Pt(0, 0)
    /\ UNCHANGED notSe

DblClickEvent(maxPoints, maxHistory) ==
    /\ seBtn = "up"
    /\ se.mode = "draw"
    /\ \E pt \in SeDrawAt : se' = dblclick(se, pt)
    /\ SeWithin(se', maxPoints, maxHistory)
    /\ UNCHANGED <<seBtn, seAt, notSe>>

\* a key goes down while the button of the pointer is up
KeyEvent(after, maxPoints, maxHistory) ==
    /\ seBtn = "up"
    /\ se' = after
    /\ SeWithin(se', maxPoints, maxHistory)
    /\ UNCHANGED <<seBtn, seAt, notSe>>

TimerEvent ==
    /\ se.realtimeTimer # 0
    /\ se' = realtimeTimer_fire(se)
    /\ UNCHANGED <<seBtn, seAt, notSe>>

\* the axes as they were when the drag began
SeBeforeDrag(e) ==
    IF e.dragPrevCoords # <<>> /\ AxisPos(e.axes, e.activeId, 1) # 0
    THEN SetCoords(e, e.activeId, e.dragPrevCoords) ELSE e

\* ---- a session on a loaded document ----
SeEditButton == ButtonEvent(editAxis_click(se)) /\ seMark' = MarkKept(seMark, se, se')

SeMouseDown == MouseDownEvent(SeMaxPoints, SeMaxHistory) /\ seMark' = MarkKept(seMark, se, se')

SeMouseMove == MouseMoveEvent /\ seMark' = MarkKept(seMark, se, se')

SeMouseUp ==
    /\ MouseUpEvent(SeMaxPoints, SeMaxHistory)
    /\ seMark' = IF seBtn = "down" THEN MarkEdit(seMark, se, se', "insert", se)
                 ELSE IF se.dragging.on /\ se.dragging.kind = "vertex" /\ SeBeforeDrag(se).axes # se.axes
                 THEN Mark("moved", SeBeforeDrag(se))
                 ELSE MarkKept(seMark, se, se')

SeKeyDelete ==
    /\ KeyEvent(keydown_Delete(se), SeMaxPoints, SeMaxHistory)
    /\ seMark' = MarkEdit(seMark, se, se', "delete", se)

SeKeyUndo ==
    /\ KeyEvent(keydown_KeyZ(se), SeMaxPoints, SeMaxHistory)
    /\ seMark' = IF seMark.kind \in {"insert", "moved", "delete"} /\ ~seMark.undone /\ se.mode = "edit"
                 THEN [seMark EXCEPT !.undone = TRUE]
                 ELSE MarkKept(seMark, se, se)

SeTimerFire == TimerEvent /\ seMark' = MarkKept(seMark, se, se')

\* a document with a payload is loaded
SeIngestEditorAxes ==
    /\ seBtn = "up"
    /\ \E data \in SeReloads : se' = editorIngestEditorAxes(se, data)
    /\ seMark' = Mark("ingest", se')
    /\ UNCHANGED <<seBtn, seAt, notSe>>

\* a document without payload is loaded
SeIngestFromCenterlines ==
    /\ seBtn = "up"
    /\ \E features \in SeCenterlines : se' = editorIngestFromCenterlines(se, features)
    /\ seMark' = Mark("ingest", se')
    /\ UNCHANGED <<seBtn, seAt, notSe>>

\* ---- a session that starts without axes: they are drawn ----
DrDrawButton == ButtonEvent(drawAxis_click(se)) /\ UNCHANGED seMark

DrMouseDown == MouseDownEvent(DrMaxPoints, DrMaxHistory) /\ UNCHANGED seMark

DrMouseMove == MouseMoveEvent /\ UNCHANGED seMark

DrMouseUp == MouseUpEvent(DrMaxPoints, DrMaxHistory) /\ UNCHANGED seMark

DrDblClick == DblClickEvent(DrMaxPoints, DrMaxHistory) /\ UNCHANGED seMark

DrKeyEscape == KeyEvent(keydown_Escape(se), DrMaxPoints, DrMaxHistory) /\ UNCHANGED seMark

DrKeyDelete == KeyEvent(keydown_Delete(se), DrMaxPoints, DrMaxHistory) /\ UNCHANGED seMark

DrKeyUndo == KeyEvent(keydown_KeyZ(se), DrMaxPoints, DrMaxHistory) /\ UNCHANGED seMark

DrTimerFire == TimerEvent /\ UNCHANGED seMark

-----------------------------------------------------------------------------
(* Lane tracks: buildTracks(side) of spline.js links the lanes of one side  *)
(* of a road across its lane sections.  A lane is [id, predecessor,         *)
(* successor]; a link the document does not give is 0, an id no lane of a   *)
(* side has.  Sections count from 1.                                        *)

BtMaxSections == 2       \* lane sections of the road
BtMaxLanes == 2          \* lanes of one side of a section

BtLane(id, pred, succ) == [id |-> id, predecessor |-> pred, successor |-> succ]

\* a node of the map 'nodes'; its key is <<si, id>>
BtNode(si, ln) == [si |-> si, id |-> ln.id, pred |-> ln.predecessor, succ |-> ln.successor]

BtLinks(side) == { Sign(side) * k : k \in 0 .. BtMaxLanes }

\* the lanes of one side of a section as readLanes returns them: none, or
\* the lanes 1..n of the side sorted by id descending
BtSideLanes(side) ==
    UNION { { lanes \in [1 .. n -> [id : {Sign(side) * k : k \in 1 .. n},
                                    predecessor : BtLinks(side), successor : BtLinks(side)]] :
                \A k \in 1 .. n : lanes[k].id = IF side = "left" THEN n + 1 - k ELSE -k } :
            n \in 0 .. BtMaxLanes }

BtSection(side, lanes) ==
    [left |-> IF side = "left" THEN lanes ELSE <<>>,
     right |-> IF side = "right" THEN lanes ELSE <<>>]

BtRoads(side) ==
    UNION { { [laneSections |-> [si \in 1 .. n |-> BtSection(side, secs[si])]] :
                secs \in [1 .. n -> BtSideLanes(side)] } :
            n \in 1 .. BtMaxSections }

\* nodes.has(`${si}:${id}`)
buildTracks_has(road, side, si, id) ==
    /\ si >= 1 /\ si <= Len(road.laneSections)
    /\ \E k \in 1 .. Len(road.laneSections[si][side]) : road.laneSections[si][side][k].id = id

\* nodes.get(`${si}:${id}`) of a key the map has
buildTracks_get(road, side, si, id) ==
    BtNode(si, road.laneSections[si][side][
               CHOOSE k \in 1 .. Len(road.laneSections[si][side]) : road.laneSections[si][side][k].id = id])

\* the loop that fills 'starts': sections in order, lanes in array order
RECURSIVE buildTracks_starts(_, _, _, _)
buildTracks_starts(road, side, si, k) ==
    IF si > Len(road.laneSections) THEN <<>>
    ELSE IF k > Len(road.laneSections[si][side]) THEN buildTracks_starts(road, side, si + 1, 1)
    ELSE IF si = 1 \/ ~buildTracks_has(road, side, si - 1, road.laneSections[si][side][k].predecessor)
    THEN <<BtNode(si, road.laneSections[si][side][k])>> \o buildTracks_starts(road, side, si, k + 1)
    ELSE buildTracks_starts(road, side, si, k + 1)

\* the first lane of the array whose predecessor is id; 0 when there is none
RECURSIVE buildTracks_byPredecessor(_, _, _)
buildTracks_byPredecessor(lanes, id, k) ==
    IF k > Len(lanes) THEN 0
    ELSE IF lanes[k].predecessor = id THEN lanes[k].id
    ELSE buildTracks_byPredecessor(lanes, id, k + 1)

\* the id of the lane that follows cur in section nsi; 0 when nextKey stays null
buildTracks_nextId(road, side, cur, nsi) ==
    IF cur.succ # 0 /\ buildTracks_has(road, side, nsi, cur.succ) THEN cur.succ
    ELSE buildTracks_byPredecessor(road.laneSections[nsi][side], cur.id, 1)

\* the while loop: the track from cur on
RECURSIVE buildTracks_track(_, _, _)
buildTracks_track(road, side, cur) ==
    IF cur.si + 1 > Len(road.laneSections) THEN <<cur>>
    ELSE IF buildTracks_nextId(road, side, cur, cur.si + 1) = 0 THEN <<cur>>
    ELSE <<cur>> \o buildTracks_track(road, side,
                       buildTracks_get(road, side, cur.si + 1, buildTracks_nextId(road, side, cur, cur.si + 1)))

buildTracks_from(road, side, starts) ==
    [t \in 1 .. Len(starts) |-> [side |-> side, nodes |-> buildTracks_track(road, side, starts[t])]]

buildTracks(road, side) == buildTracks_from(road, side, buildTracks_starts(road, side, 1, 1))

BtIdle ==
    /\ btRoad = [laneSections |-> <<>>] /\ btSide = "left" /\ btTracks = <<>> /\ btPc = "idle"

\* a road has been parsed
BtStart ==
    /\ btSide \in {"left", "right"}
    /\ btRoad \in BtRoads(btSide)
    /\ btTracks = <<>>
    /\ btPc = "init"

\* const tracksLeft = buildTracks('left'), tracksRight = buildTracks('right')
BtBuild ==
    /\ btPc = "init"
    /\ btTracks' = buildTracks(btRoad, btSide)
    /\ btPc' = "built"
    /\ UNCHANGED <<btRoad, btSide, notBt>>

-----------------------------------------------------------------------------
(* Specifications.  Each one exercises one part of the program; the state  *)
(* of the other parts stays at its idle value.                             *)

SplInit == SplStart /\ SamIdle /\ LanIdle /\ SmIdle /\ IxIdle /\ EdIdle /\ RtIdle /\ LdIdle /\ LnIdle /\ PlIdle /\ SpIdle /\ SeIdle /\ BtIdle
SplNext == SplAdd \/ SplAddSegment
SplineSpec == SplInit /\ [][SplNext]_vars

SamInit == SamStart /\ SplIdle /\ LanIdle /\ SmIdle /\ IxIdle /\ EdIdle /\ RtIdle /\ LdIdle /\ LnIdle /\ PlIdle /\ SpIdle /\ SeIdle /\ BtIdle
SamNext == SamSegment
SamplerSpec == SamInit /\ [][SamNext]_vars

LanInit == LanStart /\ SplIdle /\ SamIdle /\ SmIdle /\ IxIdle /\ EdIdle /\ RtIdle /\ LdIdle /\ LnIdle /\ PlIdle /\ SpIdle /\ SeIdle /\ BtIdle
LanNext == LanSample \/ LanFinish
LaneRunSpec == LanInit /\ [][LanNext]_vars

SmInit == SmStart /\ SplIdle /\ SamIdle /\ LanIdle /\ IxIdle /\ EdIdle /\ RtIdle /\ LdIdle /\ LnIdle /\ PlIdle /\ SpIdle /\ SeIdle /\ BtIdle
SmNext == SmSetRoundK \/ SmSmooth
SmoothSpec == SmInit /\ [][SmNext]_vars

IxInit == IxStart /\ SplIdle /\ SamIdle /\ LanIdle /\ SmIdle /\ EdIdle /\ RtIdle /\ LdIdle /\ LnIdle /\ PlIdle /\ SpIdle /\ SeIdle /\ BtIdle
IxNext == IxSetSnapVertexPx \/ IxRecompute
IntersectSpec == IxInit /\ [][IxNext]_vars


EdInit == EdStart /\ SplIdle /\ SamIdle /\ LanIdle /\ SmIdle /\ IxIdle /\ RtIdle /\ LdIdle /\ LnIdle /\ PlIdle /\ SpIdle /\ SeIdle /\ BtIdle
EdNext == EdMouseDown \/ EdRadiusMouseDown \/ EdMouseMove \/ EdMouseUp \/ EdKeyDelete \/ EdKeyUndo \/ EdTimerFire
EditorSpec == EdInit /\ [][EdNext]_vars

\* Dragging alone: presses, movements and releases of the mouse and the
\* timeout.  The browser runs the callback of a pending timeout; no
\* event has to arrive.
DragNext == EdMouseDown \/ EdMouseMove \/ EdMouseUp \/ EdTimerFire

\* The step of the callback, told by its pre-state and its label alone:
\* EdTimerFire is the one action that ends with edLast = "timer", it is
\* enabled whenever a timeout is pending, and edLast is never "timer" while
\* one is pending.  So weak fairness of TimerExpires on edLast is weak
\* fairness of EdTimerFire.
TimerExpires == ed.realtimeTimer # 0 /\ edLast' = "timer"
DragSpec == EdInit /\ [][DragNext]_vars /\ WF_edLast(TimerExpires)

RtInit == RtStart /\ SplIdle /\ SamIdle /\ LanIdle /\ SmIdle /\ IxIdle /\ EdIdle /\ LdIdle /\ LnIdle /\ PlIdle /\ SpIdle /\ SeIdle /\ BtIdle
RtNext == RtSetRoundK \/ RtExport \/ RtIngest
RoundTripSpec == RtInit /\ [][RtNext]_vars

LdInit == LdStart /\ SplIdle /\ SamIdle /\ LanIdle /\ SmIdle /\ IxIdle /\ EdIdle /\ RtIdle /\ LnIdle /\ PlIdle /\ SpIdle /\ SeIdle /\ BtIdle
LdNext == LdLoadXodr
LoadSpec == LdInit /\ [][LdNext]_vars

LnInit == LnStart /\ SplIdle /\ SamIdle /\ LanIdle /\ SmIdle /\ IxIdle /\ EdIdle /\ RtIdle /\ LdIdle /\ PlIdle /\ SpIdle /\ SeIdle /\ BtIdle
LnNext == LnSampleSegment \/ LnSampleSegmentAdaptive
LineSpec == LnInit /\ [][LnNext]_vars

DgInit == DgStart /\ SplIdle /\ SamIdle /\ LanIdle /\ IxIdle /\ EdIdle /\ RtIdle /\ LdIdle /\ LnIdle /\ PlIdle /\ SpIdle /\ SeIdle /\ BtIdle
DgNext == SmSetRoundK \/ SmSmooth
DegenerateSpec == DgInit /\ [][DgNext]_vars

\* the factors of the running editor: set by hand, ingested from a payload,
\* ingested from centrelines
IgNext == RtSetRoundK \/ RtIngestPayload \/ RtIngestCenterlines
IngestSpec == RtInit /\ [][IgNext]_vars

PlInit == PlStart /\ SplIdle /\ SamIdle /\ LanIdle /\ SmIdle /\ IxIdle /\ EdIdle /\ RtIdle /\ LdIdle /\ LnIdle /\ SpIdle /\ SeIdle /\ BtIdle
PlNext == PlParse \/ PlSample
LanesSpec == PlInit /\ [][PlNext]_vars

SpInit == SpStart /\ SplIdle /\ SamIdle /\ LanIdle /\ SmIdle /\ IxIdle /\ EdIdle /\ RtIdle /\ LdIdle /\ LnIdle /\ PlIdle /\ SeIdle /\ BtIdle
SpNext == SpSetRounding \/ SpRebuild
SplitSpec == SpInit /\ [][SpNext]_vars

SeInit == SeStart /\ SplIdle /\ SamIdle /\ LanIdle /\ SmIdle /\ IxIdle /\ EdIdle /\ RtIdle /\ LdIdle /\ LnIdle /\ PlIdle /\ SpIdle /\ BtIdle
EditingNext == SeEditButton \/ SeMouseDown \/ SeMouseMove \/ SeMouseUp \/ SeKeyDelete \/ SeKeyUndo \/ SeTimerFire \/ SeIngestEditorAxes \/ SeIngestFromCenterlines
EditingSpec == SeInit /\ [][EditingNext]_vars

DrInit == SeBlank /\ SplIdle /\ SamIdle /\ LanIdle /\ SmIdle /\ IxIdle /\ EdIdle /\ RtIdle /\ LdIdle /\ LnIdle /\ PlIdle /\ SpIdle /\ BtIdle
DrawingNext == DrDrawButton \/ DrMouseDown \/ DrMouseMove \/ DrMouseUp \/ DrDblClick \/ DrKeyEscape \/ DrKeyDelete \/ DrKeyUndo \/ DrTimerFire
DrawingSpec == DrInit /\ [][DrawingNext]_vars

BtInit == BtStart /\ SplIdle /\ SamIdle /\ LanIdle /\ SmIdle /\ IxIdle /\ EdIdle /\ RtIdle /\ LdIdle /\ LnIdle /\ PlIdle /\ SpIdle /\ SeIdle
BtNext == BtBuild
TracksSpec == BtInit /\ [][BtNext]_vars

-----------------------------------------------------------------------------
(* Claims *)

\* C4: after out = A.add(B), out.get(t) = A.get(t) + B.get(t) for every t,
\* also before the first knot and for an empty operand.
C4_AddIsPointwiseSum ==
    splPc = "added" =>
        \A t \in SplTs :
            CubicSpline_get(splSum, t, 0) = CubicSpline_get(splA, t, 0) + CubicSpline_get(splB, t, 0)

\* witness: non-aligned knots, a sum taken, and a non-trivial value read
\* before the first knot of one operand.
C4_Witness ==
    /\ splPc = "added"
    /\ Len(splA) = 2 /\ Len(splB) = 1
    /\ \A i \in 1..2 : splA[i].s0 /= splB[1].s0
    /\ splA[1].poly.d /= 0 /\ splB[1].poly.c /= 0
    /\ CubicSpline_get(splSum, -1, 0) /= 0

\* C7: the last sample of a Spiral or ParamPoly3 primitive of positive length
\* L has local arc length exactly L.
C7_LastSampleAtEnd ==
    (samIdx > 0 /\ samGeoms[samIdx].type \in {"spiral", "poly3"} /\ samGeoms[samIdx].length > 0)
        => (Len(samPts) > 0 /\ Last(samPts) = samGeoms[samIdx].length)

\* C8: for contiguous primitives the absolute arc length of the returned samples
\* is strictly increasing and the vertex at a joint of two sampled primitives
\* appears exactly once.
C8_StrictlyIncreasing ==
    SamDone =>
        /\ \A i \in 1..(Len(samOut) - 1) : samOut[i] < samOut[i + 1]
        /\ \A k \in 2..Len(samGeoms) :
              (samGeoms[k].length > 0 /\ samGeoms[k].s > 0) =>
                  Cardinality({i \in 1..Len(samOut) : samOut[i] = samGeoms[k].s}) = 1

\* width of an emitted run at its k-th boundary point
RunWidth(run, k) == Abs(run.outer[k].off - run.inner[k].off)

\* the k-th boundary point of the run is a centreline sample after which the
\* track has no lane node (the run was closed by the track pausing)
TrackPausesAfter(run, k) ==
    \E j \in 1..(Len(lanSamples) - 1) :
        /\ run.outer[k].s = lanSamples[j] * 1000
        /\ FindNode(lanTrack.nodes, sectionAt(lanRoad.laneSections, lanSamples[j + 1])) = NoNode

\* C9 (as stated): every emitted lane run has width exactly EPS at its first and
\* at its last boundary point; no run boundary point has width >= 2*EPS or <= 0.
C9_RunEndsAtEps ==
    \A f \in 1..Len(lanSt.features) :
        \A k \in {1, Len(lanSt.features[f].outer)} :
            /\ RunWidth(lanSt.features[f], k) = EPS
            /\ RunWidth(lanSt.features[f], k) < 2 * EPS
            /\ RunWidth(lanSt.features[f], k) > 0

\* C9 (amended): in every emitted lane run the first boundary point has width
\* exactly EPS unless it is the first centreline sample, the last boundary point
\* has width exactly EPS unless it is the last centreline sample or the track
\* pauses after it, every other point has width above EPS, and no point has
\* width <= 0.
C9_CrossingsAtEps ==
    \A f \in 1..Len(lanSt.features) :
        /\ Len(lanSt.features[f].outer) = Len(lanSt.features[f].inner)
        /\ Len(lanSt.features[f].outer) >= 2
        /\ \A k \in 1..Len(lanSt.features[f].outer) : RunWidth(lanSt.features[f], k) >= EPS
        /\ \A k \in 2..(Len(lanSt.features[f].outer) - 1) : RunWidth(lanSt.features[f], k) > EPS
        /\ \/ RunWidth(lanSt.features[f], 1) = EPS
           \/ lanSt.features[f].outer[1].s = lanSamples[1] * 1000
        /\ \/ RunWidth(lanSt.features[f], Len(lanSt.features[f].outer)) = EPS
           \/ Last(lanSt.features[f].outer).s = Last(lanSamples) * 1000
           \/ TrackPausesAfter(lanSt.features[f], Len(lanSt.features[f].outer))

\* witness: a finished walk that emitted a run opened and closed by a threshold
\* crossing, and a run that starts at the first sample with a full width.
C9_Witness ==
    /\ lanPc = "done"
    /\ \E f \in 1..Len(lanSt.features) :
          /\ Len(lanSt.features[f].outer) >= 3
          /\ RunWidth(lanSt.features[f], 1) = EPS
          /\ lanSt.features[f].outer[1].s > lanSamples[1] * 1000
          /\ RunWidth(lanSt.features[f], Len(lanSt.features[f].outer)) = EPS
          /\ RunWidth(lanSt.features[f], 2) > 2 * EPS

\* C5: when every internal vertex of an axis has the rounding factor k = 0,
\* smoothAxisCoords returns the input polyline vertex for vertex, with no
\* arc point inserted.
C5_ZeroKeepsPolyline ==
    (smPc = "smoothed" /\ \A i \in 2 .. Len(smCoords) - 1 : getRoundK(smRound, i) = 0)
        => smOut = smCoords

\* C6: for every two consecutive internal vertices that smoothAxisCoords
\* rounds, the two tangent lengths taken on the edge they share sum to at
\* most the length of that edge.
C6_TangentsFitEdge ==
    smPc = "smoothed" =>
        \A i \in 2 .. Len(smCoords) - 2 :
            (smT[i] >= 0 /\ smT[i + 1] >= 0) =>
                smT[i] + smT[i + 1] <= len(sub(map_project(smCoords[i + 1]), map_project(smCoords[i])))

\* sign of the turn a -> b -> c
Orient(a, b, c) == MathSign((b.x - a.x) * (c.y - a.y) - (b.y - a.y) * (c.x - a.x))

\* two segments cross at one point interior to both
ProperCross(p1, p2, p3, p4) ==
    /\ Orient(p1, p2, p3) * Orient(p1, p2, p4) < 0
    /\ Orient(p3, p4, p1) * Orient(p3, p4, p2) < 0

TrueCrossings(c1, c2) ==
    Cardinality({ij \in (1 .. Len(c1) - 1) \X (1 .. Len(c2) - 1) :
                    ProperCross(c1[ij[1]], c1[ij[1] + 1], c2[ij[2]], c2[ij[2] + 1])})

\* C10: when the two axes share exactly one true crossing,
\* recomputeIntersectionsAll produces exactly one intersection point; the
\* axes range over vertex positions a cluster tolerance apart, endpoints
\* within the tolerance of the other axis included.
C10_OneCrossingOnePoint ==
    (ixPc = "done" /\ TrueCrossings(ixAxes[1].coords, ixAxes[2].coords) = 1)
        => Len(ixIntersections) = 1

\* C1: a vertex moved by handleEditDragMove is followed by a run of
\* rebuildAndRenderEditorRoads, also when no further event arrives: no
\* movement stays without a later rebuild.
C1_DragIsRebuilt == ed.pendingDrag ~> ~ed.pendingDrag

\* witness: during a drag that has moved a vertex the timeout has run the
\* rebuild, and the stored intersections are those of the axes as dragged.
C1_Witness ==
    /\ edLast = "timer"
    /\ ed.dragging.on /\ ed.dragging.kind = "vertex"
    /\ CoordsOf(ed, ed.activeId) # ed.dragPrevCoords
    /\ ~ed.pendingDrag
    /\ ed.intersections = recomputeIntersectionsAll(ed.axes, RoundingAll(ed), ed.snapVertexPx)

\* C2: after every completed change of an axis (a vertex inserted by a click
\* on a midpoint, a vertex moved, a vertex deleted, an undo, a rounding
\* factor changed) the stored intersections are those that
\* recomputeIntersectionsAll yields on the axes as they are now, and the
\* snap segments are the split of the axes at them.
C2_IntersectionsCurrent ==
    edLast \in {"insert", "moved", "delete", "undo", "radius"} =>
        /\ ed.intersections = recomputeIntersectionsAll(ed.axes, RoundingAll(ed), ed.snapVertexPx)
        /\ ed.snapSegments = SegLines(ed, ed.axes, 1)

\* the axes, vertex lists and rounding factors of two editor states agree
SameAxes(a, b) ==
    /\ Len(a.axes) = Len(b.axes)
    /\ \A k \in 1 .. Len(a.axes) :
          /\ a.axes[k].id = b.axes[k].id
          /\ a.axes[k].coords = b.axes[k].coords
          /\ \A i \in 2 .. Len(a.axes[k].coords) - 1 :
                getRoundK(RoundingOf(a, a.axes[k].id), i) = getRoundK(RoundingOf(b, b.axes[k].id), i)

\* C3: ingesting the editorAxes payload of an exported document yields, for
\* every axis, the id, the vertex list (order and values) and the rounding
\* factor at every internal vertex that the editor had at the export.
C3_RoundTrip == rtPc = "ingested" => SameAxes(rtEd, rtBefore)

\* witness: a round trip of an axis of three vertices with a fractional and a
\* negative coordinate and a stored rounding factor of 0.125.
C3_Witness ==
    /\ rtPc = "ingested"
    /\ Len(rtEd.axes) = 2
    /\ rtEd.axes[1].coords = <<Pt(0, 0), Pt(1005, -20), Pt(-250, 307)>>
    /\ RoundingOf(rtBefore, 1) = (2 :> 125)
    /\ getRoundK(RoundingOf(rtEd, 1), 2) = 125
    /\ rtXml.editorAxes[1].rounding[1].value.frac = <<1, 2, 5>>

\* ---- C11 ----
\* a road element has its id, a numeric length and at least one geometry
LdComplete(r) == r.id # 0 /\ num(r.length) # Undefined /\ Len(r.geoms) > 0
LdCompleteRoads(xmlText) == SelectSeq(xmlText.roads, LdComplete)

\* C11: after a document is loaded, a road element that lacks its id, its
\* length or its geometry is absent from the loaded model and contributes no
\* feature, and the other roads of the document are loaded: the model holds
\* exactly the complete roads, and there is one centreline for each of them.
C11_IncompleteRoadsSkipped ==
    (ldAlert = "" /\ currentModel # Null) =>
        /\ currentModel.roads =
              [k \in 1..Len(LdCompleteRoads(ldText)) |->
                  parseOpenDrive_road(LdCompleteRoads(ldText)[k])]
        /\ Len(currentGeo.centerlines) = Len(LdCompleteRoads(ldText))

\* ---- C12 ----
\* C12: when the text handed to loadXodr is not well-formed markup, the parse
\* fails, the failure is reported, and currentModel and currentGeo are
\* exactly what they were before the call.
C12_FailedLoadKeepsState ==
    (ldAlert # "idle" /\ ~ldText.wellFormed) =>
        /\ ldAlert = "Failed to parse OpenDRIVE: XML parse error"
        /\ parseOpenDrive(ldText).threw
        /\ parseOpenDrive(ldText).model = Null
        /\ currentModel = ldPrev.currentModel
        /\ currentGeo = ldPrev.currentGeo

\* a failed load that follows the load of a document with a drawn road
C12_Witness ==
    /\ ~ldText.wellFormed
    /\ ldAlert = "Failed to parse OpenDRIVE: XML parse error"
    /\ currentModel # Null
    /\ Len(currentModel.roads) > 0
    /\ Len(currentGeo.centerlines) > 0

\* ---- C13 ----
\* the samples of a line of length L for a chord c: ceil(L/c) + 1 of them,
\* evenly spaced from s = 0 to s = L along the heading of the line
C13_Even(geom, c, pts) ==
    /\ Len(pts) = CeilDiv(geom.length, c) + 1
    /\ \A i \in 1..Len(pts) :
          /\ pts[i].s = Div((i - 1) * geom.length, CeilDiv(geom.length, c))
          /\ pts[i].th = geom.hdg
          /\ pts[i].x = geom.x + Div(pts[i].s * MathCos(geom.hdg), 1000)
          /\ pts[i].y = geom.y + Div(pts[i].s * MathSin(geom.hdg), 1000)
    /\ pts[1].s = 0
    /\ pts[Len(pts)].s = geom.length

C14_Case ==
    /\ lanPc = "done"
    /\ lanTrack = [side |-> "left", nodes |-> <<[si |-> 1, id |-> 1]>>]
    /\ Len(lanRoad.laneSections) = 1
    /\ lanRoad.laneOffsets = <<>>
    /\ Len(lanRoad.laneSections[1].left) = 1
    /\ Len(lanRoad.laneSections[1].left[1].widths) = 1
    /\ lanRoad.laneSections[1].left[1].widths[1].a > EPS
    /\ lanRoad.laneSections[1].left[1].widths[1].b = 0
    /\ lanRoad.laneSections[1].left[1].widths[1].c = 0
    /\ lanRoad.laneSections[1].left[1].widths[1].d = 0

\* C14: for a road with one lane section, no laneOffset and a single left
\* lane of constant width w > EPS, buildLaneRunsTrack emits exactly one run;
\* it has one boundary point per centreline sample, from s = 0 to the end of
\* the road, the outer boundary at offset +w and the inner one at offset 0.
C14_ConstantLaneOneRun ==
    C14_Case =>
        /\ Len(lanSt.features) = 1
        /\ lanSt.features[1].side = "left"
        /\ lanSt.features[1].outer =
              [i \in 1..Len(lanSamples) |->
                  [s |-> 1000 * lanSamples[i],
                   off |-> lanRoad.laneSections[1].left[1].widths[1].a]]
        /\ lanSt.features[1].inner =
              [i \in 1..Len(lanSamples) |-> [s |-> 1000 * lanSamples[i], off |-> 0]]
        /\ lanSt.features[1].outer[1].s = 0
        /\ Last(lanSt.features[1].outer).s = 1000 * Last(lanSamples)

\* the lane 3.5 m wide: one run over the whole road
C14_Witness ==
    /\ C14_Case
    /\ lanRoad.laneSections[1].left[1].widths[1].a = 3500
    /\ Len(lanSt.features) = 1
    /\ Len(lanSt.features[1].outer) = Len(lanSamples)
    /\ Len(lanSamples) > 2
    /\ lanSt.features[1].outer[1] = [s |-> 0, off |-> 3500]
    /\ Last(lanSt.features[1].inner) = [s |-> 1000 * Last(lanSamples), off |-> 0]

\* ---- C15 ----
\* the vertex at position i lies on a neighbour, or its two edges lie on one line
C15_Degenerate(cs, i) ==
    \/ cs[i] = cs[i - 1]
    \/ cs[i] = cs[i + 1]
    \/ (cs[i].x - cs[i - 1].x) * (cs[i + 1].y - cs[i].y)
         = (cs[i].y - cs[i - 1].y) * (cs[i + 1].x - cs[i].x)

C15_InBox(p) == p.x \in 0 .. 2001 /\ p.y \in 0 .. 1001

\* C15: smoothAxisCoords completes on an axis with degenerate vertices; it
\* keeps every degenerate internal vertex as it is, without an arc; every
\* coordinate it emits is a finite number within the box of the axis; and
\* the other internal vertices are still rounded.
C15_DegenerateVertexKept ==
    smPc = "smoothed" =>
        /\ Len(smT) = Len(smCoords)
        /\ smOut[1] = smCoords[1]
        /\ smOut[Len(smOut)] = smCoords[Len(smCoords)]
        /\ \A j \in 1 .. Len(smOut) : C15_InBox(smOut[j])
        /\ \A i \in 2 .. Len(smCoords) - 1 :
              IF C15_Degenerate(smCoords, i)
              THEN /\ smT[i] = -1
                   /\ RoundVertex(smCoords, smRound, i).pts = <<smCoords[i]>>
              ELSE /\ smT[i] >= MinTangent
                   /\ Len(RoundVertex(smCoords, smRound, i).pts) >= 3
        /\ Len(smOut) = 2 + SeqSum([i \in 1 .. Len(smCoords) - 2 |->
                                       Len(RoundVertex(smCoords, smRound, i + 1).pts)])

\* a vertex dragged onto its neighbour, next to a vertex that turns
C15_Witness ==
    /\ smPc = "smoothed"
    /\ Len(smCoords) = 4
    /\ smCoords[2] = smCoords[1]
    /\ smT[2] = -1
    /\ ~C15_Degenerate(smCoords, 3)
    /\ smT[3] >= MinTangent
    /\ Len(smOut) > 5

\* ---- C16 ----
\* C16: every rounding factor stored in roundingByAxis is a number in [0, 1],
\* whatever sequence of setRoundK calls, centreline ingests and payload
\* ingests produced the state.
C16_FactorsInUnitRange ==
    \A id \in DOMAIN rtEd.rounding :
        \A i \in DOMAIN rtEd.rounding[id] :
            rtEd.rounding[id][i] >= 0 /\ rtEd.rounding[id][i] <= 1000

\* ---- C17 ----
\* a movement of the radius handle that changes the factor while the button
\* stays down leaves the derived segments as they were: no rebuild runs
\* between two mutations of the drag
C17_NoRebuildInsideBurst ==
    (edLast' = "radius" /\ edBtn' = "handle") => ed'.snapSegments = ed.snapSegments

\* the callback of the timeout rebuilds a state that is not rebuilt yet
C17_TimerRebuildsOnce == edLast' = "timer" => ed.pendingDrag

\* C17: a burst of edits triggers exactly one recomputation, after the burst
\* has gone quiet: no step of a drag in progress runs
\* rebuildAndRenderEditorRoads, and the timeout never rebuilds a state that
\* the release of the button has rebuilt already.
C17_OneRebuildPerBurst == [][C17_NoRebuildInsideBurst /\ C17_TimerRebuildsOnce]_vars

\* ---- C18 ----
\* length of the edge that ends at vertex i
C18_EdgeBefore(cs, i) == len(sub(map_project(cs[i]), map_project(cs[i - 1])))

\* t_max of vertex i, as the loop of smoothAxisCoords computes it
C18_TangentMaxAt(cs, m, i) ==
    TangentMax(C18_EdgeBefore(cs, i), C18_EdgeBefore(cs, i + 1),
               IF i - 1 >= 2 THEN tangentLengthAtLL(m, cs, i - 1) ELSE 0,
               IF i + 1 <= Len(cs) - 1 THEN tangentLengthAtLL(m, cs, i + 1) ELSE 0)

\* C18: for every internal vertex that smoothAxisCoords rounds, the tangent
\* length t it uses is at most t_max, and so at most 0.49 times the shorter
\* of the two edges at the vertex, whatever the length of the edges.
C18_TangentWithinMax ==
    smPc = "smoothed" =>
        \A i \in 2 .. Len(smCoords) - 1 :
            smT[i] >= 0 =>
                /\ smT[i] <= C18_TangentMaxAt(smCoords, smRound, i)
                /\ smT[i] <= TangentBase(Min(C18_EdgeBefore(smCoords, i), C18_EdgeBefore(smCoords, i + 1)))

\* ---- C19 ----
\* the lane node of the track in the section that holds sample j
C19_NodeAt(j) == FindNode(lanTrack.nodes, sectionAt(lanRoad.laneSections, lanSamples[j]))

\* the type of the lane that the track follows in section si
C19_TypeIn(si) ==
    TypeOfLane(SideLanes(lanRoad, si, lanTrack.side), FindNode(lanTrack.nodes, si).id)

\* the track has a lane in both sections, of two types, wider than EPS at
\* every sample
C19_Case ==
    /\ lanPc = "done"
    /\ Len(lanRoad.laneSections) = 2
    /\ FindNode(lanTrack.nodes, 1) # NoNode
    /\ FindNode(lanTrack.nodes, 2) # NoNode
    /\ C19_TypeIn(1) # C19_TypeIn(2)
    /\ \A j \in 1 .. Len(lanSamples) :
          WidthIn(lanRoad, sectionAt(lanRoad.laneSections, lanSamples[j]), lanTrack.side,
                  C19_NodeAt(j).id, lanSamples[j]) > EPS

\* C19: when the lane type of a track changes at a section boundary while
\* the width stays above EPS on both sides, buildLaneRunsTrack emits two
\* runs, the first with the type of the first section and ending at the
\* boundary, the second with the type of the second section.
C19_TypeChangeSplitsRun ==
    C19_Case =>
        /\ Len(lanSt.features) = 2
        /\ lanSt.features[1].laneType = C19_TypeIn(1)
        /\ lanSt.features[2].laneType = C19_TypeIn(2)
        /\ Last(lanSt.features[1].outer).s <= 1000 * LanSecondAt
        /\ lanSt.features[2].outer[1].s >= 1000 * LanSecondAt

\* ---- C20 ----
\* C20: the runs that buildLaneRunsTrack emits for a track are disjoint in
\* arc length and ascending: within a run the boundary points have
\* non-decreasing s, on the outer and on the inner boundary, and a run ends
\* no later than the next run starts.
C20_RunsAscending ==
    /\ \A f \in 1 .. Len(lanSt.features) :
          /\ \A k \in 1 .. Len(lanSt.features[f].outer) - 1 :
                lanSt.features[f].outer[k].s <= lanSt.features[f].outer[k + 1].s
          /\ \A k \in 1 .. Len(lanSt.features[f].inner) - 1 :
                lanSt.features[f].inner[k].s <= lanSt.features[f].inner[k + 1].s
    /\ \A f \in 1 .. Len(lanSt.features) - 1 :
          Last(lanSt.features[f].outer).s <= lanSt.features[f + 1].outer[1].s

\* ---- C21 ----
\* the width record in force at ds: the one with the greatest sOffset <= ds,
\* and before every record the one with the smallest sOffset
C21_Records(widths) == { widths[k] : k \in 1 .. Len(widths) }

C21_InForce(widths, ds) ==
    IF \E w \in C21_Records(widths) : w.sOffset <= ds
    THEN CHOOSE w \in C21_Records(widths) :
            /\ w.sOffset <= ds
            /\ \A v \in C21_Records(widths) : v.sOffset <= ds => v.sOffset <= w.sOffset
    ELSE CHOOSE w \in C21_Records(widths) : \A v \in C21_Records(widths) : w.sOffset <= v.sOffset

\* C21: at every local position ds the lane width is the cubic of the width
\* record with the greatest sOffset <= ds, whatever the order of the width
\* elements in the document.
C21_WidthOfRecordInForce ==
    plPc = "sampled" =>
        plW = CubicAt(C21_InForce(PlInnerWidths(plSections[plSec]), plS - plSections[plSec].s),
                      plS - plSections[plSec].s
                        - C21_InForce(PlInnerWidths(plSections[plSec]), plS - plSections[plSec].s).sOffset)

\* ---- C22 ----
\* C22: the laneSections of a parsed road are in ascending order of s,
\* whatever the order of the elements in the document, and the section
\* resolved for a sample is the one with the greatest start <= the sample.
C22_SectionsAscending ==
    /\ plPc \in {"parsed", "sampled"} =>
          \A k \in 1 .. Len(plSections) - 1 : plSections[k].s <= plSections[k + 1].s
    /\ plPc = "sampled" =>
          /\ plSections[plSec].s <= plS
          /\ \A k \in 1 .. Len(plSections) :
                plSections[k].s <= plS => plSections[k].s <= plSections[plSec].s

C24_Chain(coords, parts) ==
    /\ parts[1][1] = coords[1]
    /\ \A i \in 1 .. Len(parts) - 1 : parts[i + 1][1] = parts[i][Len(parts[i])]
    /\ parts[Len(parts)][Len(parts[Len(parts)])] = coords[Len(coords)]

\* C24: the segments splitAxisByIntersections returns chain: the first
\* starts at the first vertex of the axis, each next one starts where the
\* one before ended, the last ends at the last vertex; an axis of no length
\* (fewer than two distinct anchors) has no segments, every other axis has.
C24_SegmentsChain ==
    spPc = "built" =>
        \A a \in 1 .. Len(spAxes) :
            IF spSmooth[a][1] = spSmooth[a][Len(spSmooth[a])] /\ Len(spSmooth[a]) = 2
            THEN spParts[a] = <<>>
            ELSE spParts[a] # <<>> /\ C24_Chain(spSmooth[a], spParts[a])

\* witness: an axis split at an intersection into more than one segment,
\* and beside it the axis of no length
C24_Witness ==
    /\ spPc = "built"
    /\ Len(spParts[1]) >= 2
    /\ spParts[2] = <<>>
    /\ spIntersections # <<>>

\* ---- C25 ----
\* a vertex the rounding applies to: not the first, not the last
C25_Inner(coords, j) == 1 < j /\ j < Len(coords)

\* the vertices of old, the one at p apart, keep their factor in new, where
\* they stand one place further on from p (shift = 1) or one place back
\* (shift = -1)
C25_FactorsFollow(old, mOld, new, mNew, p, shift) ==
    \A j \in 1 .. Len(old) :
        (/\ shift = 1 \/ j # p
         /\ C25_Inner(old, j)
         /\ C25_Inner(new, IF j < p THEN j ELSE j + shift))
            => getRoundK(mNew, IF j < p THEN j ELSE j + shift) = getRoundK(mOld, j)

C25_AfterInsert(old, mOld, new, mNew) ==
    \E p \in 1 .. Len(new) : Remove(new, p) = old /\ C25_FactorsFollow(old, mOld, new, mNew, p, 1)

C25_AfterDelete(old, mOld, new, mNew) ==
    \E p \in 1 .. Len(old) : Remove(old, p) = new /\ C25_FactorsFollow(old, mOld, new, mNew, p, -1)

\* C25: inserting or deleting a vertex leaves the rounding factor of every
\* other vertex as it was (the factor follows the vertex, not its old
\* index), and an undo that brings the vertices back brings every vertex
\* its factor back.
C25_FactorFollowsVertex ==
    \A k \in 1 .. Len(seMark.axes) :
        /\ (seMark.kind = "insert" /\ ~seMark.undone /\ CoordsOf(se, seMark.axes[k].id) # seMark.axes[k].coords)
              => C25_AfterInsert(seMark.axes[k].coords, RoundingOf(seMark, seMark.axes[k].id),
                                 CoordsOf(se, seMark.axes[k].id), RoundingOf(se, seMark.axes[k].id))
        /\ (seMark.kind = "delete" /\ ~seMark.undone /\ CoordsOf(se, seMark.axes[k].id) # seMark.axes[k].coords)
              => C25_AfterDelete(seMark.axes[k].coords, RoundingOf(seMark, seMark.axes[k].id),
                                 CoordsOf(se, seMark.axes[k].id), RoundingOf(se, seMark.axes[k].id))
        /\ (seMark.kind \in {"insert", "delete"} /\ seMark.undone
            /\ CoordsOf(se, seMark.axes[k].id) = seMark.axes[k].coords)
              => \A j \in 1 .. Len(seMark.axes[k].coords) :
                    getRoundK(RoundingOf(se, seMark.axes[k].id), j)
                        = getRoundK(RoundingOf(seMark, seMark.axes[k].id), j)

\* ---- C26 ----
\* C26: undoEdit right after a single edit (a vertex inserted, a drag
\* completed, a vertex deleted) leaves every axis with the vertex list it
\* had before the edit.
C26_UndoRestoresVertices ==
    seMark.undone => se.axes = seMark.axes

\* ---- C30 ----
\* C30: after editorIngestEditorAxes or editorIngestFromCenterlines an undo
\* never changes the vertices of an ingested axis, also when the axis has
\* the id of an axis that was edited before the ingest: as long as no edit
\* follows the ingest the axes stay as the ingest left them.
C30_UndoSparesIngestedAxes ==
    seMark.kind = "ingest" => se.axes = seMark.axes

\* ---- C28 ----
\* C28: every axis in roadsById has at least two vertices, whatever clicks
\* drew it, however the drawing was finished or cancelled, and after every
\* insertion, drag, deletion and undo.
C28_AxesHaveTwoVertices ==
    \A k \in 1 .. Len(se.axes) : Len(se.axes[k].coords) >= 2

\* witness: an axis that was drawn has been taken down to two vertices by a
\* deletion
C28_Witness ==
    /\ se.nextN >= 1
    /\ se.historyEdit # <<>>
    /\ \E k \in 1 .. Len(se.axes) :
          /\ se.axes[k].id = Last(se.historyEdit).id
          /\ Len(se.axes[k].coords) = 2
          /\ Len(Last(se.historyEdit).prevCoords) = 3
          /\ \E p \in 1 .. 3 : Remove(Last(se.historyEdit).prevCoords, p) = se.axes[k].coords

\* ---- C27 ----
\* C27: in every state of the editor mode 'edit' implies that activeId names
\* an axis of roadsById, and so does a drag in progress, whatever buttons,
\* clicks, keys and loads came before.
C27_EditHasActiveAxis ==
    /\ se.mode = "edit" => AxisPos(se.axes, se.activeId, 1) # 0
    /\ se.dragging.on => AxisPos(se.axes, se.activeId, 1) # 0

\* ---- C29 ----
\* the tracks that hold the lane id of section si
C29_TracksOf(tracks, si, id) ==
    { t \in 1 .. Len(tracks) :
        \E n \in 1 .. Len(tracks[t].nodes) : tracks[t].nodes[n].si = si /\ tracks[t].nodes[n].id = id }

\* C29: buildTracks partitions the lanes of a side into tracks: every lane
\* of every lane section is in exactly one track, also where a lane splits
\* into two or two lanes merge into one, and a track holds one lane per
\* section over consecutive sections.
C29_TracksPartitionLanes ==
    btPc = "built" =>
        /\ \A si \in 1 .. Len(btRoad.laneSections) :
              \A k \in 1 .. Len(btRoad.laneSections[si][btSide]) :
                 Cardinality(C29_TracksOf(btTracks, si, btRoad.laneSections[si][btSide][k].id)) = 1
        /\ \A t \in 1 .. Len(btTracks) :
              \A n \in 1 .. Len(btTracks[t].nodes) - 1 :
                 btTracks[t].nodes[n + 1].si = btTracks[t].nodes[n].si + 1

=============================================================================
